---- MODULE Spec2Model ----
(***************************************************************************)
(* The engine coordinator (VIB3Engine) of the VIB3+ visualizer, with the   *)
(* CanvasManager it drives.  The repository holds two revisions of the     *)
(* coordinator:                                                            *)
(*   canvas-managed   src/unnamed/part_004 with src/unnamed/part_003: one  *)
(*                    adapter at a time, destroyed and re-created on every *)
(*                    switch; adapter initialization is awaited, so calls  *)
(*                    can overlap (SpecManaged);                           *)
(*   pooled           src/src/core/VIB3Engine.js: the three adapters are   *)
(*                    constructed once by initialize() and toggled         *)
(*                    (SpecPooled, definitions prefixed Pool_).            *)
(* The adapters                                                            *)
(* (QuantumEngine, FacetedSystem, RealHolographicSystem) and the           *)
(* ParameterManager are not part of the sources at hand; they are modelled *)
(* from their contract: initialize / updateParameters / setActive /        *)
(* destroy, and a clamping parameter store.                                *)
(***************************************************************************)
EXTENDS Integers, Sequences, FiniteSets, TLC

Null == "null"

\* ---------------------------------------------------------------- bounds
MaxAdapters == 2        \* adapters the canvas-managed coordinator constructs in one behaviour
MaxPooled == 3          \* adapters the pooled coordinator constructs in one behaviour
MaxInFlight == 2        \* switchSystem calls suspended at the same time
MaxValue == 1           \* a channel's range is 0..MaxValue
MaxClicks == 1          \* click events delivered in one behaviour
MaxRouted == 3          \* pointer and wheel events routed in one behaviour
MaxIndex == 30          \* geometry indices given lie in -MaxIndex..MaxIndex
MaxSchedules == 5       \* scheduleAutoSave calls in one behaviour
MaxBursts == 2          \* clicks on one click mode in one behaviour
MaxVariations == 2      \* variations of a collection document

\* ------------------------------------------------------- names and inputs
\* The three engine identities the coordinator knows.
Systems == {"quantum", "faceted", "holographic"}

\* Names that are no engine: a plain unknown string, and a name every
\* JavaScript object inherits from Object.prototype.
InheritedNames == {"toString"}
SystemNames == Systems \cup {"bogus"} \cup InheritedNames

\* The names the canvas-managed coordinator is called with
ManagedNames == {"quantum", "faceted", "bogus"}

\* The names the pooled coordinator is called with
PooledNames == {"quantum", "faceted", "bogus", "toString"}

\* state.system of the documents the pooled coordinator imports
ImportedNames == {"", "faceted", "bogus", "toString"}

Channels == {"hue"}
Values == 0..MaxValue
Written == -1..(MaxValue + 1)
Snapshots == [Channels -> Values]
NoParams == [c \in Channels |-> -1]

\* ------------------------------------------------------- ParameterManager
clamp(v) == IF v < 0 THEN 0 ELSE IF v > MaxValue THEN MaxValue ELSE v

DefaultParams == [c \in Channels |-> 0]

ParamSet(p, c, v) == [p EXCEPT ![c] = clamp(v)]

ParamSetMany(p, partial) ==
    [c \in DOMAIN p |-> IF c \in DOMAIN partial THEN clamp(partial[c]) ELSE p[c]]

\* the partial parameter sets setParameters is given
Partials == UNION {[S -> Written] : S \in SUBSET Channels}

\* state.parameters of an imported document: absent, or a parameter set
NoPartial == [has |-> FALSE, vals |-> DefaultParams]
ImportedParams ==
    {NoPartial, [has |-> TRUE, vals |-> [c \in Channels |-> MaxValue + 1]]}

\* --------------------------------------------------------- EngineAdapter
NewAdapter(kind) ==
    [kind |-> kind, active |-> FALSE, destroyed |-> FALSE, params |-> NoParams]

setActive(ads, i, b) == [ads EXCEPT ![i].active = b]

updateParameters(ads, i, p) == [ads EXCEPT ![i].params = p]

\* destroy releases everything the adapter holds: it stops being active
\* and forgets its parameters
adapterDestroy(ads, i) ==
    [ads EXCEPT ![i] = [kind |-> ads[i].kind, active |-> FALSE,
                        destroyed |-> TRUE, params |-> NoParams]]


VARIABLES
    adapters,           \* every adapter instance constructed so far
    parameters,         \* ParameterManager's current values
    initialized,        \* VIB3Engine.initialized
    activeSystem,       \* CanvasManaged: VIB3Engine.activeSystem (0 = null)
    currentSystemName,  \* CanvasManaged: VIB3Engine.currentSystemName
    canvasManager,      \* CanvasManaged: VIB3Engine.canvasManager
    pending,            \* CanvasManaged: calls suspended at await initialize
    systems,            \* Pooled: VIB3Engine.systems (0 = null / absent)
    currentSystem,      \* Pooled: VIB3Engine.currentSystem
    layers,             \* Pooled: display of each <system>Layers container
    lastCall,           \* the call that completed last, and what it did
    ready,              \* ReactivityManager: initializeModes has run
    currentMouseMode,   \* ReactivityManager.currentMouseMode
    currentClickMode,   \* ReactivityManager.currentClickMode
    currentScrollMode,  \* ReactivityManager.currentScrollMode
    clickModes,         \* ReactivityManager.clickModes: the four instances
    written,            \* the parameters each click mode wrote in the last step
    clicked,            \* the click events delivered so far
    mouseModes,         \* ReactivityManager.mouseModes: the state VelocityMode keeps
    scrollModes,        \* ReactivityManager.scrollModes: SweepMode, MixedScrollMode
    calls,              \* the updateParameter calls of the last routed event
    routed,             \* the pointer and wheel events routed so far
    batch,              \* the last parameter write: its argument, the store
                        \* before it, the snapshots the adapter was handed
    activeCoreIndex,    \* geometry tabs: the selected core type
    activeBaseIndex,    \* geometry tabs: the selected base geometry
    activeGeometry,     \* geometry tabs: the combined index
    geoCall,            \* the last call of the geometry codec and its result
    collectionManager,  \* CollectionManager: collections, loadingPromises, fetches under way
    stateManager,       \* the state manager: the page's query string and the last decoded state
    portal,             \* the ViewerPortal: its switches, the last device angles and its last write
    hexacosichoron,     \* the Hexacosichoron under construction: its position and its arrays
    pipeline,           \* the rotation pipeline: the last point, snapshot and projection
    toggles,            \* ReactivityManager: enabled and the category toggles
    portalEngine,       \* the engine the ViewerPortal writes to: its store, and the base rotations
    gallery             \* the gallery: the rotations of the store, the saved slots, the last document and its validation

vars == <<adapters, parameters, initialized, activeSystem,
          currentSystemName, canvasManager, pending, systems,
          currentSystem, layers, lastCall, ready, currentMouseMode,
          currentClickMode, currentScrollMode, clickModes, written, clicked,
          mouseModes, scrollModes, calls, routed, batch, activeCoreIndex,
          activeBaseIndex, activeGeometry, geoCall,
          collectionManager,
          stateManager,
          portal,
          hexacosichoron,
          pipeline,
          toggles,
          portalEngine,
          gallery>>

\* the state of the ReactivityManager
selectedVars == <<currentMouseMode, currentClickMode, currentScrollMode>>
clickVars == <<clickModes, written, clicked>>
pointerVars == <<mouseModes, scrollModes, calls, routed>>
reactivityVars == <<ready, selectedVars, clickVars, pointerVars>>

\* the state outside the engine coordinator
tabVars == <<activeCoreIndex, activeBaseIndex, activeGeometry>>
geometryVars == <<tabVars, geoCall>>
\* the state of the components beside the coordinator, the ReactivityManager
\* and the geometry codec
peripheralVars == <<collectionManager, stateManager, portal, hexacosichoron,
                   pipeline, toggles, portalEngine, gallery>>
otherVars == <<reactivityVars, batch, geometryVars, peripheralVars>>

\* what the pooled coordinator leaves alone, and what the canvas-managed one does
managedVars == <<activeSystem, currentSystemName, canvasManager, pending, otherVars>>
pooledVars == <<systems, currentSystem, layers, otherVars>>

\* the state of the engine coordinator, both revisions
engineVars == <<adapters, parameters, initialized, activeSystem,
                currentSystemName, canvasManager, pending, systems,
                currentSystem, layers, lastCall, batch, geometryVars,
                peripheralVars>>

\* what the geometry codec leaves alone
engineLike == <<adapters, parameters, initialized, activeSystem,
                currentSystemName, canvasManager, pending, systems,
                currentSystem, layers, lastCall, batch, reactivityVars,
                peripheralVars>>

\* the coordinator, the ReactivityManager and the geometry codec
appVars == <<adapters, parameters, initialized, activeSystem,
             currentSystemName, canvasManager, pending, systems,
             currentSystem, layers, lastCall, batch, reactivityVars,
             geometryVars>>

\* what the CollectionManager leaves alone, and what the state manager does
collectionRest == <<appVars, stateManager, portal, hexacosichoron, pipeline, toggles,
        portalEngine, gallery>>
stateRest == <<appVars, collectionManager, portal, hexacosichoron, pipeline, toggles,
        portalEngine, gallery>>
portalRest == <<appVars, collectionManager, stateManager, hexacosichoron, pipeline, toggles,
        portalEngine, gallery>>
polytopeRest == <<appVars, collectionManager, stateManager, portal, pipeline, toggles,
        portalEngine, gallery>>
toggleRest == <<appVars, collectionManager, stateManager, portal, hexacosichoron,
               pipeline, portalEngine, gallery>>
galleryRest == <<appVars, collectionManager, stateManager, portal, hexacosichoron,
                pipeline, toggles, portalEngine>>
tiltRest == <<appVars, collectionManager, stateManager, hexacosichoron, pipeline,
             toggles, gallery>>
pipelineRest == <<appVars, collectionManager, stateManager, portal, hexacosichoron, toggles,
        portalEngine, gallery>>

\* --------------------------------------------------------- call records
\* What is known of the switchSystem a call made: its result, whether the
\* adapter's constructor and initialize ran ("ok"), threw ("threw") or were
\* not reached ("-"), and whether another call overlapped it.
NoSwitch == [result |-> "-", ctor |-> "-", init |-> "-", overlap |-> FALSE]

\* hooks: the adapter hooks the call invoked; again: a destroy that follows
\* a destroy
Call(op, result, sw, hooks) ==
    [op |-> op, again |-> op = "destroy" /\ lastCall.op = "destroy",
     result |-> result, sw |-> sw, hooks |-> hooks]

\* ------------------------------------------------------- CanvasManager
NoCanvasManager ==
    [exists |-> FALSE, activeSystem |-> Null, activeCanvases |-> {},
     activeContexts |-> {}]

NewCanvasManager ==
    [exists |-> TRUE, activeSystem |-> Null, activeCanvases |-> {},
     activeContexts |-> {}]

baseIds == <<"background-canvas", "shadow-canvas", "content-canvas",
             "highlight-canvas", "accent-canvas">>

getCanvasIdsForSystem(systemName) ==
    CASE systemName = "faceted" -> [i \in DOMAIN baseIds |-> <<"", baseIds[i]>>]
      [] systemName = "quantum" -> [i \in DOMAIN baseIds |-> <<"quantum-", baseIds[i]>>]
      [] systemName = "holographic" -> [i \in DOMAIN baseIds |-> <<"holo-", baseIds[i]>>]
      [] OTHER -> [i \in DOMAIN baseIds |-> <<"", baseIds[i]>>]

\* destroyActiveSystem: the manager after the call
destroyActiveSystem(cm) ==
    IF cm.activeSystem = Null
    THEN cm
    ELSE [cm EXCEPT !.activeSystem = Null, !.activeCanvases = {},
                    !.activeContexts = {}]

\* createSystemCanvases: the manager after the call, and the ids (strings)
\* it returns
createSystemCanvases(cm, systemName) ==
    LET ids == getCanvasIdsForSystem(systemName)
    IN  [cm |-> [destroyActiveSystem(cm) EXCEPT
                    !.activeSystem = systemName,
                    !.activeCanvases = {ids[i] : i \in DOMAIN ids}],
         ids |-> ids]

\* CanvasManager.destroy
canvasManagerDestroy(cm) == destroyActiveSystem(cm)

\* ------------------------------------------------- ReactivityManager state
\* Effect magnitudes are held in units of 1/100000, so 0.01 is 1000.
Epsilon == 1000

ClickModeNames == {"burst", "blast", "ripple", "mixed"}

\* the effect magnitudes each click mode keeps
EffectKeys(m) ==
    CASE m = "burst" -> {"chaosBoost", "speedBoost"}
      [] m = "blast" -> {"chaosBlast", "speedWave", "hueShift"}
      [] m = "ripple" -> {"morphIntensity"}
      [] m = "mixed" -> {"chaosBoost", "speedBoost", "hueShift", "morphIntensity"}

\* A click mode as its constructor leaves it.  scheduled: the runs of its
\* animate that are queued with requestAnimationFrame; frame: the frame counter of
\* MixedClickMode.startAnimation; ticks, clicks: the runs of animate and
\* the clicks since the loop last started.
NewClickMode(m) ==
    [isAnimating |-> FALSE, scheduled |-> 0,
     effects |-> [k \in EffectKeys(m) |-> 0],
     frame |-> 0, ticks |-> 0, clicks |-> 0]

NoWrites == [m \in ClickModeNames |-> {}]

MouseModeNames == {"rotations", "velocity", "distance", "mixed"}

ScrollModeNames == {"cycle", "wave", "sweep", "mixed"}

\* Pointer positions, in halves of the canvas: the centre and the lower
\* right corner
Positions == {[x |-> 1, y |-> 1], [x |-> 2, y |-> 2]}

\* The mouse modes as their constructors leave them; only VelocityMode keeps
\* state between events (velocityHistory holds the squares of the velocities)
NewMouseModes ==
    [velocity |-> [lastPosition |-> [x |-> 1, y |-> 1], velocityHistory |-> <<>>]]

\* The scroll modes as their constructors leave them.  The values the modes
\* sweep (scrollDensity, scrollHue, scrollMorph, waveValues, sweepValues) are
\* left out: of a write only its channel is kept.
NewScrollModes ==
    [sweep |-> [sweepParameter |-> 0],
     mixed |-> [cycleGeometry |-> 0, sweepParameter |-> 0]]

\* ReactivityManager's constructor; initializeModes is deferred (setTimeout)
ReactivityInit ==
    /\ ready = FALSE
    /\ currentMouseMode = "rotations"
    /\ currentClickMode = "ripple"
    /\ currentScrollMode = "cycle"
    /\ clickModes = [m \in ClickModeNames |-> NewClickMode(m)]
    /\ written = NoWrites
    /\ clicked = 0
    /\ mouseModes = NewMouseModes
    /\ scrollModes = NewScrollModes
    /\ calls = <<>>
    /\ routed = 0

\* layout-polish.js: let activeCoreIndex = 0, activeBaseIndex = 0,
\* activeGeometry = 0; no call of the codec has been made
GeometryInit ==
    /\ activeCoreIndex = 0
    /\ activeBaseIndex = 0
    /\ activeGeometry = 0
    /\ geoCall = [op |-> "-", args |-> <<>>, result |-> <<>>]

\* ------------------------------------------------- CollectionManager state
\* the files of the collections/ folder, and of the user
Filenames == {"base-variations.json", "custom-variations.json"}

\* geometry of a variation (geometryType of an old holographic one)
Geometries == {0, 999}

\* A collection document as JSON.parse gives it: its type, whether it has
\* a variations array, and the geometry of each variation
CollectionDocs ==
    {d \in [type : {"vib3plus-collection", "holographic-collection", "other"},
            hasVariations : BOOLEAN,
            variations : UNION {[1..n -> Geometries] : n \in 0..MaxVariations}] :
        ~d.hasVariations => d.variations = <<>>}

\* no collection under a filename
NoCollection == [type |-> "-", hasVariations |-> FALSE, variations |-> <<>>]

\* new CollectionManager(): both maps empty; fetching: the fetches under way of each
\* file, those that clearCollections has passed counted apart
NewCollectionManager ==
    [collections |-> [f \in Filenames |-> NoCollection],
     loadingPromises |-> {},
     fetching |-> [f \in Filenames |-> [live |-> 0, cleared |-> 0]],
     last |-> [op |-> "-", filename |-> "-", result |-> "-"]]

\* ------------------------------------------------- state manager
\* the channels captureParameters reads: a rotation and a colour channel
StateChannels == {"rot4dXY", "hue"}

\* the systems and geometry indices a link carries
LinkSystems == {"quantum"}
LinkGeometries == {5}

\* the objects a {v, s, g, p} link is made from: each member is there or
\* undefined, p has any subset of the channels
CompactStates ==
    [v : {[has |-> FALSE], [has |-> TRUE, str |-> "1.0"]},
     s : {[has |-> FALSE]} \cup {[has |-> TRUE, str |-> n] : n \in LinkSystems},
     g : {[has |-> FALSE]} \cup {[has |-> TRUE, num |-> n] : n \in LinkGeometries},
     p : {[has |-> FALSE]} \cup
         {[has |-> TRUE, obj |-> o] :
             o \in UNION {[S -> {MaxValue}] : S \in SUBSET StateChannels}}]

\* window.location.search without a state parameter, and with one that is
\* not base64 of JSON
NoQuery == <<[key |-> "-"]>>
Garbled == <<[key |-> "?"]>>
NullState == [null |-> TRUE]

\* maxHistorySize: 50 in the source
maxHistorySize == 3

\* the application states that are captured and saved
SavedStates == 0..MaxValue

\* what the last call on the undo history did
NoHistoryCall == [op |-> "-", result |-> FALSE, cut |-> FALSE, shifted |-> FALSE]

\* Auto-save: timers are numbered from 1, 0 is null.  timers: the timers
\* pending; calls, bursts, saves: the scheduleAutoSave calls so far, those
\* made while no timer was pending, and the runs of saveStateToStorage;
\* stored: the call whose state the last save stored
NoAutoSave ==
    [timers |-> {}, calls |-> 0, bursts |-> 0, saves |-> 0, stored |-> 0,
     trigger |-> "-"]

NewStateManager ==
    [search |-> NoQuery, state |-> NullState,
     stateHistory |-> <<>>, currentStateIndex |-> -1, restored |-> 0,
     last |-> NoHistoryCall,
     autoSaveEnabled |-> TRUE, autoSaveTimeout |-> 0, autoSave |-> NoAutoSave]

\* ------------------------------------------------- ViewerPortal
\* the angles a deviceorientation event reports, in degrees: the sensor's
\* values are not bounded
DeviceAngles == {-200, 0, 100, 400}

\* this.mouseX and this.mouseY, in halves of the window
MousePositions == {0, 2}

\* no write to the engine yet
NoPortalWrite == [path |-> "-", tilt |-> FALSE, alpha |-> 0, beta |-> 0, gamma |-> 0,
                  channels |-> {}]

NewViewerPortal ==
    [interactivity |-> [mouse |-> TRUE, tilt |-> TRUE, enhanced |-> TRUE],
     mouseX |-> 1, mouseY |-> 1,
     deviceOrientation |-> [alpha |-> 0, beta |-> 0, gamma |-> 0],
     last |-> NoPortalWrite]

\* ------------------------------------------------- Hexacosichoron
\* the constructor before generateVertices: empty arrays; pc and i are the
\* loop the constructor is in and the next value of its counter, groups the
\* number of vertices each of the three loops pushed
NewHexacosichoron ==
    [pc |-> "group1", i |-> 0, vertices |-> <<>>, groups |-> <<0, 0, 0>>,
     indices |-> <<>>]

\* ------------------------------------------------- rotation pipeline
\* the six rotation channels, in the order of the sliders
RotationPlanes == <<"rot4dXY", "rot4dXZ", "rot4dYZ", "rot4dXW", "rot4dYW", "rot4dZW">>

\* the angles of a snapshot, in quarter turns
QuarterTurns == {0, 1}
RotationSnapshots == [{RotationPlanes[n] : n \in DOMAIN RotationPlanes} -> QuarterTurns]

\* the 4D points that are projected
Points == {<<1, 2, 3, 4>>, <<1, 0, 0, 0>>, <<0, 0, 0, 1>>}

\* nothing projected yet
NewPipeline ==
    [vertex |-> <<0, 0, 0, 0>>,
     params |-> [c \in {RotationPlanes[n] : n \in DOMAIN RotationPlanes} |-> 0],
     projected |-> <<0, 0, 0>>]

RotationChannels == {"rot4dXY", "rot4dXZ", "rot4dYZ", "rot4dXW", "rot4dYW", "rot4dZW"}

\* Channel values of the portal's engine are held in thousandths.
\* the range each channel of the store is clamped into
TiltRanges ==
    [r \in RotationChannels |-> [lo |-> -6283, hi |-> 6283]] @@
    [morphFactor |-> [lo |-> 0, hi |-> 2000],
     intensity |-> [lo |-> 0, hi |-> 1000],
     chaos |-> [lo |-> 0, hi |-> 1000],
     gridDensity |-> [lo |-> 4000, hi |-> 100000],
     hue |-> [lo |-> 0, hi |-> 360000],
     saturation |-> [lo |-> 0, hi |-> 1000]]

\* the values the store holds before any write
TiltDefaults ==
    [r \in RotationChannels |-> 0] @@
    [morphFactor |-> 1000, intensity |-> 500, chaos |-> 200, gridDensity |-> 15000,
     hue |-> 200000, saturation |-> 800]

\* no perspective has been written yet
NoReading == [path |-> "-", reading |-> <<0, 0, 0>>, sine |-> 0]

\* initialize: baseRotations are read from the engine
NewPortalEngine ==
    [store |-> TiltDefaults,
     baseRotations |-> [r \in RotationChannels |-> TiltDefaults[r]],
     last |-> NoReading]

\* ------------------------------------------------- gallery and validation
\* A value of a JSON document: a number (rotations in hundredths), a string
\* that is no number, or a property that is missing
Num(v) == [t |-> "number", v |-> v]
Undefined == [t |-> "undefined", v |-> 0]
Text == [t |-> "string", v |-> 0]

ParameterKeys == {"geometry"} \cup RotationChannels

\* a variation without a parameters object
NoParameters == [k \in ParameterKeys |-> Undefined]

\* a variation validateCollection accepts
GoodVariation ==
    [system |-> "quantum", hasParameters |-> TRUE,
     parameters |-> [k \in ParameterKeys |-> Num(0)]]

\* the values of geometry and of a rotation channel in the documents given
GeometryValues == {Num(0), Num(23), Num(24), Num(-1), Undefined, Text}
RotationValues == {Num(0), Num(628), Num(629), Num(-314), Undefined, Text}

\* the variations given: any system, with or without parameters, any
\* geometry, and one rotation channel with any value
ValidationVariations ==
    {[system |-> s, hasParameters |-> FALSE, parameters |-> NoParameters] :
        s \in {"quantum", "bogus", ""}}
    \cup
    {[system |-> s, hasParameters |-> TRUE,
      parameters |-> [k \in ParameterKeys |->
                        IF k = "geometry" THEN g ELSE IF k = c THEN r ELSE Num(0)]] :
        s \in {"quantum", "bogus", ""}, g \in GeometryValues,
        c \in RotationChannels, r \in RotationValues}

\* the documents given: a variation alone or after a good one, and the
\* documents of another type or without a variations array
ValidationDocs ==
    {[type |-> "vib3plus-collection", hasVariations |-> TRUE, variations |-> vs] :
        vs \in {<<v>> : v \in ValidationVariations}
                \cup {<<GoodVariation, v>> : v \in ValidationVariations}}
    \cup
    {[type |-> t, hasVariations |-> h, variations |-> <<>>] :
        t \in {"vib3plus-collection", "other", ""}, h \in BOOLEAN}

NoDoc == [type |-> "", hasVariations |-> FALSE, variations |-> <<>>]
NoVerdict == [op |-> "-", valid |-> FALSE, error |-> "-"]

\* the custom slots of the gallery
Slots == {30, 31}
NoVariation == [system |-> "", hasParameters |-> FALSE, parameters |-> NoParameters]

\* the engine with its rotations at the defaults, no slot saved, nothing
\* exported or validated
NewGallery ==
    [system |-> "quantum",
     rotations |-> [c \in RotationChannels |-> 0],
     savedVariations |-> [i \in Slots |-> NoVariation],
     doc |-> NoDoc, verdict |-> NoVerdict]

\* the switches as the constructor of the ReactivityManager sets them
NewToggles ==
    [enabled |-> TRUE, mouseEnabled |-> TRUE, clickEnabled |-> TRUE,
     scrollEnabled |-> TRUE]

PeripheralInit ==
    /\ portalEngine = NewPortalEngine
    /\ toggles = NewToggles
    /\ collectionManager = NewCollectionManager
    /\ stateManager = NewStateManager
    /\ portal = NewViewerPortal
    /\ hexacosichoron = NewHexacosichoron
    /\ pipeline = NewPipeline

\* no parameter write has been made
NoBatch == [partial |-> <<>>, before |-> DefaultParams, forwarded |-> <<>>]

TypeOK ==
    /\ Len(adapters) <= MaxPooled
    /\ parameters \in Snapshots
    /\ initialized \in BOOLEAN
    /\ activeSystem \in 0..MaxAdapters
    /\ currentSystemName \in Systems
    /\ Cardinality(pending) <= MaxInFlight
    /\ currentSystem \in SystemNames

AppInit ==
    /\ adapters = <<>>
    /\ parameters = DefaultParams
    /\ initialized = FALSE
    /\ activeSystem = 0
    /\ currentSystemName = "quantum"
    /\ canvasManager = NoCanvasManager
    /\ pending = {}
    /\ systems = [k \in Systems |-> 0]
    /\ currentSystem = "quantum"
    /\ layers = [k \in Systems |-> "absent"]
    /\ lastCall = [op |-> "-", again |-> FALSE, result |-> "-",
                   sw |-> NoSwitch, hooks |-> {}]
    /\ ReactivityInit
    /\ batch = NoBatch
    /\ GeometryInit
    /\ PeripheralInit

Init == AppInit /\ gallery = NewGallery

\* validateCollection is given any of the documents
ValidateInit ==
    AppInit /\ gallery \in {[NewGallery EXCEPT !.doc = d] : d \in ValidationDocs}

\* ===================================================== CanvasManaged
\* VIB3Engine.updateCurrentSystemParameters
updateCurrentSystemParameters(ads, act, params) ==
    IF act # 0 THEN updateParameters(ads, act, params) ELSE ads

updateHooks(act) == IF act # 0 THEN {"updateParameters"} ELSE {}

\* switchSystem, "Destroy active system if exists"
teardown(ads, act) ==
    IF act # 0 THEN adapterDestroy(setActive(ads, act, FALSE), act) ELSE ads

teardownHooks(act) == IF act # 0 THEN {"setActive(false)", "destroy"} ELSE {}

\* activeAfterSwitch with the assignment made before the outcome is known
activeAfterSwitch_assignFirst(ok, sys, cur) == sys

\* switchSystem's try/catch around "this.activeSystem = await this.createSystem()"
activeAfterSwitch(ok, sys, cur) == IF ok THEN sys ELSE cur

\* createSystem, "Register WebGL contexts": canvases holds the ids (strings)
\* createSystemCanvases returned, and a string has no getContext, so the
\* first iteration throws a TypeError.
registrationThrows(canvases) == Len(canvases) > 0

Overlapped(P) == {[c EXCEPT !.overlap = TRUE] : c \in P}

\* What a call does once its switchSystem has returned: switchSystem itself
\* returns, initialize sets `initialized`, importState applies state.parameters.
Finish(op, sw, hooks, ads, act, cur, cm, partial, pend) ==
    /\ canvasManager' = cm
    /\ pending' = pend
    /\ activeSystem' = act
    /\ currentSystemName' = cur
    /\ UNCHANGED <<pooledVars>>
    /\ CASE op = "switchSystem" ->
              /\ adapters' = ads
              /\ lastCall' = Call(op, sw.result, sw, hooks)
              /\ UNCHANGED <<parameters, initialized>>
         [] op = "initialize" ->
              /\ adapters' = ads
              /\ initialized' = TRUE
              /\ lastCall' = Call(op, "true", sw, hooks)
              /\ UNCHANGED parameters
         [] op = "importState" ->
              /\ parameters' = IF partial.has THEN ParamSetMany(parameters, partial.vals)
                               ELSE parameters
              /\ adapters' = IF partial.has
                             THEN updateCurrentSystemParameters(ads, act, parameters')
                             ELSE ads
              /\ lastCall' = Call(op, "void", sw,
                                  hooks \cup (IF partial.has THEN updateHooks(act) ELSE {}))
              /\ UNCHANGED initialized

\* switchSystem up to its first suspension, on behalf of `op`; cm is
\* this.canvasManager when the call is made.
StartSwitch(op, systemName, partial, cm) ==
    LET sw0 == [NoSwitch EXCEPT !.result = "false", !.overlap = pending # {}]
        pend == Overlapped(pending)
    IN
    IF systemName \notin Systems
    THEN Finish(op, sw0, {}, adapters, activeSystem, currentSystemName,
                cm, partial, pend)
    ELSE
      LET ads1 == teardown(adapters, activeSystem)
          hooks1 == teardownHooks(activeSystem)
      IN
      IF ~cm.exists
      THEN \* createSystem: this.canvasManager is null, a TypeError
           Finish(op, sw0, hooks1, ads1, 0, currentSystemName,
                  cm, partial, pend)
      ELSE
        LET cs == createSystemCanvases(cm, systemName) IN
        \E ctorOk \in BOOLEAN :
          IF ~ctorOk
          THEN Finish(op, [sw0 EXCEPT !.ctor = "threw"], hooks1, ads1, 0,
                      currentSystemName, cs.cm, partial, pend)
          ELSE
            LET sys == Len(ads1) + 1 IN
            /\ Len(adapters) < MaxAdapters
            /\ Cardinality(pending) < MaxInFlight
            /\ adapters' = Append(ads1, NewAdapter(systemName))
            /\ activeSystem' = 0
            /\ canvasManager' = cs.cm
            /\ pending' = pend \cup
                 {[op |-> op, name |-> systemName, sys |-> sys,
                   canvases |-> cs.ids,
                   hooks |-> hooks1 \cup {"construct", "initialize"},
                   overlap |-> pending # {}, partial |-> partial]}
            /\ UNCHANGED <<parameters, initialized, currentSystemName,
                           pooledVars, lastCall>>

\* initialize(containerId): found says whether the container element exists
initialize(found) ==
    /\ IF ~found
       THEN /\ lastCall' = Call("initialize", "false", NoSwitch, {})
            /\ UNCHANGED <<adapters, parameters, initialized,
                           managedVars, pooledVars>>
       ELSE StartSwitch("initialize", currentSystemName, NoPartial, NewCanvasManager)

switchSystem(systemName) ==
    /\ StartSwitch("switchSystem", systemName, NoPartial, canvasManager)

\* importState(state): systemName is state.system, "" when it is not set
importState(systemName, partial) ==
    /\ IF systemName # ""
       THEN StartSwitch("importState", systemName, partial, canvasManager)
       ELSE Finish("importState", NoSwitch, {}, adapters, activeSystem,
                   currentSystemName, canvasManager, partial, pending)

\* The rest of createSystem and switchSystem, once system.initialize settled
createSystem(call, initOk) ==
    LET ok == initOk /\ ~registrationThrows(call.canvases)
        ads2 == IF ok
                THEN setActive(updateParameters(adapters, call.sys, parameters),
                               call.sys, TRUE)
                ELSE adapters
        hooks == call.hooks \cup
                 (IF ok THEN {"updateParameters", "setActive(true)"} ELSE {})
        sw == [result |-> IF ok THEN "true" ELSE "false",
               ctor |-> "ok",
               init |-> IF initOk THEN "ok" ELSE "threw",
               overlap |-> call.overlap]
    IN  /\ call \in pending
        /\ Finish(call.op, sw, hooks, ads2,
                  activeAfterSwitch(ok, call.sys, activeSystem),
                  IF ok THEN call.name ELSE currentSystemName,
                  canvasManager, call.partial, pending \ {call})

\* A parameter write followed by updateCurrentSystemParameters
Write(op, params) ==
    /\ parameters' = params
    /\ adapters' = updateCurrentSystemParameters(adapters, activeSystem, params)
    /\ lastCall' = Call(op, "void", NoSwitch, updateHooks(activeSystem))
    /\ UNCHANGED <<initialized, managedVars, pooledVars>>

setParameter(name, value) == Write("setParameter", ParamSet(parameters, name, value))

\* setParameters that stores the values as they are given
setParameters_raw(partial) ==
    Write("setParameters",
          [c \in DOMAIN parameters |->
              IF c \in DOMAIN partial THEN partial[c] ELSE parameters[c]])

setParameters(partial) == Write("setParameters", ParamSetMany(parameters, partial))

randomizeAll(random) == Write("randomizeAll", random)

resetAll == Write("resetAll", DefaultParams)

destroy ==
    /\ adapters' = IF activeSystem # 0 THEN adapterDestroy(adapters, activeSystem)
                   ELSE adapters
    /\ activeSystem' = 0
    /\ canvasManager' = NoCanvasManager
    /\ initialized' = FALSE
    /\ pending' = Overlapped(pending)
    /\ lastCall' = Call("destroy", "void", NoSwitch,
                        IF activeSystem # 0 THEN {"destroy"} ELSE {})
    /\ UNCHANGED <<parameters, currentSystemName, pooledVars>>

ManagedNext ==
    \/ \E found \in BOOLEAN : initialize(found)
    \/ \E n \in ManagedNames : switchSystem(n)
    \/ \E n \in ManagedNames \cup {""}, p \in ImportedParams : importState(n, p)
    \/ \E c \in pending, ok \in BOOLEAN : createSystem(c, ok)
    \/ \E c \in Channels, v \in Written : setParameter(c, v)
    \/ \E p \in Partials : setParameters(p)
    \/ \E r \in Snapshots : randomizeAll(r)
    \/ resetAll
    \/ destroy

\* ============================================================ Pooled
Inherited == -1

\* this.systems[name]: an adapter, 0 for null or undefined, Inherited for a
\* member the systems object inherits from Object.prototype (a function)
systemsGet(sys, name) ==
    IF name \in Systems THEN sys[name]
    ELSE IF name \in InheritedNames THEN Inherited
    ELSE 0

\* Pool_updateCurrentSystemParameters that forwards nothing
Pool_updateCurrentSystemParameters_skip(ads, sys, cur, params) ==
    [ads |-> ads, threw |-> FALSE, hooks |-> {}]

\* updateCurrentSystemParameters: calling updateParameters on an inherited
\* function is a TypeError
Pool_updateCurrentSystemParameters(ads, sys, cur, params) ==
    LET t == systemsGet(sys, cur) IN
    [ads |-> IF t > 0 THEN updateParameters(ads, t, params) ELSE ads,
     threw |-> t = Inherited,
     hooks |-> IF t > 0 THEN {"updateParameters"} ELSE {}]

hide(lay, k) == IF k \in Systems /\ lay[k] # "absent" THEN [lay EXCEPT ![k] = "none"] ELSE lay

show(lay, k) == IF k \in Systems /\ lay[k] # "absent" THEN [lay EXCEPT ![k] = "block"] ELSE lay

\* switchSystem of the pooled coordinator, as the state it leaves
Pool_switch(ads, sys, cur, lay, systemName, params) ==
    LET target == systemsGet(sys, systemName)
        old == systemsGet(sys, cur)
        same == [ads |-> ads, cur |-> cur, lay |-> lay, hooks |-> {}]
    IN
    IF target = 0
    THEN same @@ [result |-> "false"]
    ELSE IF old = Inherited
    THEN same @@ [result |-> "throws"]
    ELSE
      LET ads1 == IF old > 0 THEN setActive(ads, old, FALSE) ELSE ads
          lay1 == IF old > 0 THEN hide(lay, cur) ELSE lay
          hooks1 == IF old > 0 THEN {"setActive(false)"} ELSE {}
      IN
      IF target = Inherited
      THEN [ads |-> ads1, cur |-> systemName, lay |-> lay1, hooks |-> hooks1,
            result |-> "throws"]
      ELSE
        LET up == Pool_updateCurrentSystemParameters(
                      setActive(ads1, target, TRUE), sys, systemName, params)
        IN [ads |-> up.ads, cur |-> systemName, lay |-> show(lay1, systemName),
            hooks |-> hooks1 \cup {"setActive(true)"} \cup up.hooks,
            result |-> "true"]

SwitchRecord(r) == [NoSwitch EXCEPT !.result = r]

\* the adapter the pooled coordinator treats as current
Pool_current == IF systemsGet(systems, currentSystem) > 0
                THEN systemsGet(systems, currentSystem) ELSE 0

Pool_switchSystem(systemName) ==
    LET r == Pool_switch(adapters, systems, currentSystem, layers, systemName, parameters) IN
    /\ adapters' = r.ads
    /\ currentSystem' = r.cur
    /\ layers' = r.lay
    /\ lastCall' = Call("switchSystem", r.result,
                        SwitchRecord(r.result), r.hooks)
    /\ UNCHANGED <<parameters, initialized, systems, managedVars>>

\* One step of initializeSystems: construct the adapter of kind k, leaving
\* [ads, sys, hooks].  Outcome "ctorThrows": the constructor threw, the
\* systems entry keeps its old value.  Outcome "ok": the entry is the new
\* adapter (also when its initialize() then threw: the catch only logs).
construct(acc, k, o) ==
    IF o = "ctorThrows"
    THEN acc
    ELSE LET id == Len(acc.ads) + 1
         IN [ads |-> Append(acc.ads, NewAdapter(k)),
             sys |-> [acc.sys EXCEPT ![k] = id],
             hooks |-> acc.hooks \cup {"construct", "setActive(false)"} \cup
                       (IF k # "quantum" THEN {"initialize"} ELSE {})]

\* The runs of initializeSystems: every constructor succeeds, or those of
\* the later systems throw
Outcomes ==
    {[k \in Systems |-> IF k \in S THEN "ok" ELSE "ctorThrows"] :
        S \in {{"quantum"}, {"quantum", "faceted"}, Systems}}

initializeSystems(ads, sys, o) ==
    construct(construct(construct([ads |-> ads, sys |-> sys, hooks |-> {}],
                                  "quantum", o["quantum"]),
                        "faceted", o["faceted"]),
              "holographic", o["holographic"])

setupCanvasStructure(cur) == [k \in Systems |-> IF k = cur THEN "block" ELSE "none"]

Pool_initialize(found, o) ==
    LET built == initializeSystems(adapters, systems, o)
        r == Pool_switch(built.ads, built.sys, currentSystem,
                         setupCanvasStructure(currentSystem), currentSystem, parameters)
    IN
    /\ IF ~found
       THEN /\ lastCall' = Call("initialize", "false", NoSwitch, {})
            /\ UNCHANGED <<adapters, systems, currentSystem, layers, initialized>>
       ELSE /\ Len(built.ads) <= MaxPooled
            /\ adapters' = r.ads
            /\ systems' = built.sys
            /\ currentSystem' = r.cur
            /\ layers' = r.lay
            /\ initialized' = IF r.result = "throws" THEN initialized ELSE TRUE
            /\ lastCall' = Call("initialize",
                                IF r.result = "throws" THEN "throws" ELSE "true",
                                SwitchRecord(r.result), built.hooks \cup r.hooks)
    /\ UNCHANGED <<parameters, managedVars>>

\* A parameter write followed by updateCurrentSystemParameters
Pool_Write(op, params) ==
    LET up == Pool_updateCurrentSystemParameters(adapters, systems, currentSystem, params) IN
    /\ parameters' = params
    /\ adapters' = up.ads
    /\ lastCall' = Call(op, IF up.threw THEN "throws" ELSE "void", NoSwitch, up.hooks)
    /\ UNCHANGED <<initialized, managedVars, pooledVars>>

Pool_setParameter(name, value) == Pool_Write("setParameter", ParamSet(parameters, name, value))

Pool_setParameters(partial) == Pool_Write("setParameters", ParamSetMany(parameters, partial))

Pool_randomizeAll(random) == Pool_Write("randomizeAll", random)

Pool_resetAll == Pool_Write("resetAll", DefaultParams)

\* importState: switchSystem is not awaited, so its rejection is not seen
Pool_importState(systemName, partial) ==
    LET r == IF systemName # ""
             THEN Pool_switch(adapters, systems, currentSystem, layers, systemName, parameters)
             ELSE [ads |-> adapters, cur |-> currentSystem, lay |-> layers,
                   hooks |-> {}, result |-> "-"]
        params == IF partial.has THEN ParamSetMany(parameters, partial.vals) ELSE parameters
        up == IF partial.has
              THEN Pool_updateCurrentSystemParameters(r.ads, systems, r.cur, params)
              ELSE [ads |-> r.ads, threw |-> FALSE, hooks |-> {}]
    IN
    /\ parameters' = params
    /\ adapters' = up.ads
    /\ currentSystem' = r.cur
    /\ layers' = r.lay
    /\ lastCall' = Call("importState", IF up.threw THEN "throws" ELSE "void",
                        IF systemName # "" THEN SwitchRecord(r.result) ELSE NoSwitch,
                        r.hooks \cup up.hooks)
    /\ UNCHANGED <<initialized, systems, managedVars>>

RECURSIVE destroyAll(_, _, _)
\* Object.values(this.systems).forEach(system => system.destroy()), over the
\* kinds in `order`
destroyAll(acc, sys, order) ==
    IF order = <<>> THEN acc
    ELSE LET id == sys[Head(order)] IN
         destroyAll(IF id > 0
                    THEN [ads |-> adapterDestroy(acc.ads, id),
                          hooks |-> acc.hooks \cup {"destroy"}]
                    ELSE acc,
                    sys, Tail(order))

\* systemsAfterDestroy that keeps the destroyed adapters in this.systems
systemsAfterDestroy_keep(sys) == sys

\* this.systems = {} at the end of destroy
systemsAfterDestroy(sys) == [k \in Systems |-> 0]

Pool_destroy ==
    LET d == destroyAll([ads |-> adapters, hooks |-> {}], systems,
                        <<"quantum", "faceted", "holographic">>) IN
    /\ adapters' = d.ads
    /\ systems' = systemsAfterDestroy(systems)
    /\ initialized' = FALSE
    /\ lastCall' = Call("destroy", "void", NoSwitch, d.hooks)
    /\ UNCHANGED <<parameters, currentSystem, layers, managedVars>>

PooledNext ==
    \/ \E o \in Outcomes : Pool_initialize(TRUE, o)
    \/ Pool_initialize(FALSE, [k \in Systems |-> "ctorThrows"])
    \/ \E n \in PooledNames : Pool_switchSystem(n)
    \/ \E n \in ImportedNames, p \in ImportedParams : Pool_importState(n, p)
    \/ \E c \in Channels, v \in Written : Pool_setParameter(c, v)
    \/ \E p \in Partials : Pool_setParameters(p)
    \/ \E r \in Snapshots : Pool_randomizeAll(r)
    \/ Pool_resetAll
    \/ Pool_destroy

\* ================================================= ReactivityManager
\* initializeModes: the instances of every mode are built once
initializeModes ==
    /\ ~ready
    /\ ready' = TRUE
    /\ clickModes' = [m \in ClickModeNames |-> NewClickMode(m)]
    /\ written' = NoWrites
    /\ mouseModes' = NewMouseModes
    /\ scrollModes' = NewScrollModes
    /\ calls' = <<>>
    /\ UNCHANGED <<selectedVars, clicked, routed, engineVars>>

\* autoSelectDefaults: the modes selected for each system
SystemDefaults ==
    [faceted |-> [mouse |-> "rotations", click |-> "ripple", scroll |-> "cycle"],
     quantum |-> [mouse |-> "velocity", click |-> "blast", scroll |-> "wave"],
     holographic |-> [mouse |-> "distance", click |-> "burst", scroll |-> "sweep"]]

\* setActiveSystem(systemName, systemInstance) with autoSelectDefaults
setActiveSystem(systemName) ==
    /\ IF systemName \in DOMAIN SystemDefaults
       THEN /\ currentMouseMode' = SystemDefaults[systemName].mouse
            /\ currentClickMode' = SystemDefaults[systemName].click
            /\ currentScrollMode' = SystemDefaults[systemName].scroll
       ELSE UNCHANGED selectedVars
    /\ written' = NoWrites
    /\ calls' = <<>>
    /\ UNCHANGED <<ready, clickModes, clicked, mouseModes, scrollModes, routed,
                   engineVars>>

setClickMode(mode) ==
    /\ currentClickMode' = IF ready /\ mode \in ClickModeNames
                           THEN mode ELSE currentClickMode
    /\ written' = NoWrites
    /\ UNCHANGED <<ready, currentMouseMode, currentScrollMode, clickModes, clicked,
                   pointerVars, engineVars>>

\* effect *= 0.92 and the like, the factor in percent; a magnitude is
\* rounded up to the unit
decay_none(e, pct) == e

decay(e, pct) == (e * pct + 99) \div 100

\* the factor each effect decays by per frame, in percent
Rate ==
    [chaosBoost |-> 92, speedBoost |-> 91, chaosBlast |-> 88, speedWave |-> 89,
     hueShift |-> 90, morphIntensity |-> 90]

\* the parameter an effect is written to
Target ==
    [chaosBoost |-> "chaos", speedBoost |-> "speed", chaosBlast |-> "chaos",
     speedWave |-> "speed", hueShift |-> "hue", morphIntensity |-> "morphFactor"]

\* One run of the animate closure of mode m on instance r: the instance it
\* leaves and the parameters it wrote through updateParam.
animate(m, r) ==
    LET t == [r EXCEPT !.ticks = @ + 1]
        stop == [t EXCEPT !.isAnimating = FALSE]
    IN
    CASE m \in {"burst", "blast"} ->
           LET live == {k \in EffectKeys(m) : r.effects[k] > Epsilon} IN
           IF live # {}
           THEN [r |-> [t EXCEPT !.scheduled = @ + 1,
                                 !.effects = [k \in EffectKeys(m) |->
                                     IF k \in live THEN decay(r.effects[k], Rate[k])
                                     ELSE r.effects[k]]],
                 w |-> {Target[k] : k \in live}]
           ELSE [r |-> stop, w |-> {}]
      [] m = "ripple" ->
           IF r.effects["morphIntensity"] > Epsilon
           THEN [r |-> [t EXCEPT !.scheduled = @ + 1,
                                 !.effects["morphIntensity"] =
                                     decay(@, Rate["morphIntensity"])],
                 w |-> {"morphFactor"}]
           ELSE [r |-> stop, w |-> {"morphFactor"}]
      [] m = "mixed" ->
           IF r.frame + 1 < 30
           THEN [r |-> [t EXCEPT !.scheduled = @ + 1, !.frame = @ + 1],
                 w |-> {"chaos", "speed", "morphFactor", "hue"}]
           ELSE [r |-> [stop EXCEPT !.frame = @ + 1], w |-> {}]

RECURSIVE mixedDecay(_)
\* MixedClickMode: decay = Math.exp(-progress * 3) with progress = frame / 30,
\* in units of 1/10000: exp(-0.1) = 0.9048 per frame
mixedDecay(frame) ==
    IF frame = 0 THEN 10000 ELSE (mixedDecay(frame - 1) * 9048) \div 10000

\* The magnitude effect k of mode m has on instance r: the decayed field
\* itself, and for MixedClickMode the boost times decay (hueShift is not
\* decayed, it is the amplitude of a sine)
magnitude(m, r, k) ==
    IF m = "mixed"
    THEN IF k = "hueShift" THEN r.effects[k]
         ELSE (r.effects[k] * mixedDecay(r.frame)) \div 10000
    ELSE r.effects[k]

\* the magnitudes handleClick sets; near: the click is at the centre of the
\* canvas (normalizedDistance 0) and not at a corner (normalizedDistance 1)
clickEffects(m, near) ==
    CASE m = "burst" -> [chaosBoost |-> 80000, speedBoost |-> 150000]
      [] m = "blast" -> [chaosBlast |-> 70000, speedWave |-> 200000,
                         hueShift |-> 6000000]
      [] m = "ripple" -> [morphIntensity |-> IF near THEN 30000 ELSE 10000]
      [] m = "mixed" -> [chaosBoost |-> 60000, speedBoost |-> 130000,
                         hueShift |-> 4500000,
                         morphIntensity |-> IF near THEN 30000 ELSE 15000]

\* startAnimation of mode m: MixedClickMode queues its first frame, the
\* others run animate at once
startAnimation(m, r) ==
    LET s == [r EXCEPT !.isAnimating = TRUE, !.frame = 0] IN
    IF m = "mixed"
    THEN [r |-> [s EXCEPT !.scheduled = @ + 1], w |-> {}]
    ELSE animate(m, s)

\* handleClick that starts a loop whether or not one is running
handleClick_unguarded(m, r, near) ==
    LET e == [r EXCEPT !.effects = clickEffects(m, near)] IN
    startAnimation(m, [e EXCEPT !.clicks = @ + 1])

\* handleClick of mode m, with startAnimation when no loop is running
handleClick(m, r, near) ==
    LET e == [r EXCEPT !.effects = clickEffects(m, near)] IN
    IF r.isAnimating
    THEN [r |-> [e EXCEPT !.clicks = @ + 1], w |-> {}]
    ELSE startAnimation(m, [e EXCEPT !.clicks = 1, !.ticks = 0])

\* handleGlobalClick for an event on the canvas: nothing is done while
\* reactivity or click reactivity is switched off
handleGlobalClick(near) ==
    /\ IF /\ toggles.enabled /\ toggles.clickEnabled
          /\ ready /\ currentClickMode \in ClickModeNames
       THEN LET a == handleClick(currentClickMode, clickModes[currentClickMode], near)
            IN /\ clickModes' = [clickModes EXCEPT ![currentClickMode] = a.r]
               /\ written' = [NoWrites EXCEPT ![currentClickMode] = a.w]
       ELSE /\ written' = NoWrites
            /\ UNCHANGED clickModes
    /\ clicked' = clicked + 1
    /\ UNCHANGED <<ready, selectedVars, pointerVars, engineVars>>

RECURSIVE runQueued(_, _, _)
\* n queued runs of animate of mode m, one after the other; what they queue
\* is left for the next frame
runQueued(m, a, n) ==
    IF n = 0 THEN a
    ELSE LET b == animate(m, a.r) IN runQueued(m, [r |-> b.r, w |-> a.w \cup b.w], n - 1)

\* the callbacks of mode m that one animation frame runs
runFrame(m, r) == runQueued(m, [r |-> [r EXCEPT !.scheduled = 0], w |-> {}], r.scheduled)

\* One animation frame: every queued animate runs
AnimationFrame ==
    /\ \E m \in ClickModeNames : clickModes[m].scheduled > 0
    /\ clickModes' = [m \in ClickModeNames |-> runFrame(m, clickModes[m]).r]
    /\ written' = [m \in ClickModeNames |-> runFrame(m, clickModes[m]).w]
    /\ UNCHANGED <<ready, selectedVars, clicked, pointerVars, engineVars>>

\* setEnabled(enabled)
setEnabled(enabled) ==
    /\ toggles' = [toggles EXCEPT !.enabled = enabled]
    /\ UNCHANGED toggleRest

\* toggleClick(enabled)
toggleClick(enabled) ==
    /\ toggles' = [toggles EXCEPT !.clickEnabled = enabled]
    /\ UNCHANGED toggleRest

\* a mode is selected and then clicked, also while its loop is running
LoopNext ==
    \/ initializeModes
    \/ \E m \in ClickModeNames : clicked = 0 /\ setClickMode(m)
    \/ \E near \in BOOLEAN : clicked < MaxBursts /\ handleGlobalClick(near)
    \/ AnimationFrame

\* the clicks, the frames and the switches
ToggleNext ==
    \/ initializeModes
    \/ \E m \in ClickModeNames : setClickMode(m)
    \/ \E near \in BOOLEAN : clicked < MaxClicks /\ handleGlobalClick(near)
    \/ AnimationFrame
    \/ \E b \in BOOLEAN : setEnabled(b)
    \/ \E b \in BOOLEAN : toggleClick(b)

ClickNext ==
    \/ initializeModes
    \/ \E n \in Systems \cup {"bogus"} : setActiveSystem(n)
    \/ \E m \in ClickModeNames \cup {"bogus"} : setClickMode(m)
    \/ \E near \in BOOLEAN : clicked < MaxClicks /\ handleGlobalClick(near)
    \/ AnimationFrame

\* ------------------------------------------- mouse and scroll modes
\* a % b of JavaScript: the remainder has the sign of the dividend
JsRem(a, b) == IF a >= 0 THEN a % b ELSE -((-a) % b)

setMouseMode(mode) ==
    /\ currentMouseMode' = IF ready /\ mode \in MouseModeNames
                           THEN mode ELSE currentMouseMode
    /\ calls' = <<>>
    /\ UNCHANGED <<ready, currentClickMode, currentScrollMode, clickVars,
                   mouseModes, scrollModes, routed, engineVars>>

setScrollMode(mode) ==
    /\ currentScrollMode' = IF ready /\ mode \in ScrollModeNames
                            THEN mode ELSE currentScrollMode
    /\ calls' = <<>>
    /\ UNCHANGED <<ready, currentMouseMode, currentClickMode, clickVars,
                   mouseModes, scrollModes, routed, engineVars>>

\* velocityHistory.push(velocity), shift() beyond five entries
pushVelocity(history, v) ==
    LET h == Append(history, v) IN IF Len(h) > 5 THEN Tail(h) ELSE h

\* handleMouseMove of mode m at pos: the instances it leaves and the
\* channels of its updateParam calls, in order
handleMouseMove(m, modes, pos) ==
    CASE m = "rotations" ->
           [r |-> modes,
            w |-> <<"rot4dXY", "rot4dXZ", "rot4dYZ", "rot4dXW", "rot4dYW",
                    "rot4dZW", "hue">>]
      [] m = "velocity" ->
           LET last == modes.velocity.lastPosition
               deltaX == pos.x - last.x
               deltaY == pos.y - last.y
               velocity == deltaX * deltaX + deltaY * deltaY
           IN [r |-> [modes EXCEPT
                        !.velocity.velocityHistory = pushVelocity(@, velocity),
                        !.velocity.lastPosition = pos],
               w |-> <<"chaos", "speed", "gridDensity", "intensity", "hue">>]
      [] m = "distance" ->
           [r |-> modes, w |-> <<"gridDensity", "intensity", "saturation", "hue">>]
      [] m = "mixed" ->
           [r |-> modes,
            w |-> <<"rot4dXW", "rot4dYW", "rot4dZW", "gridDensity", "intensity",
                    "hue">>]

\* handleGlobalMouseMove for an event on the canvas while reactivity is enabled
handleGlobalMouseMove(pos) ==
    /\ IF ready /\ currentMouseMode \in MouseModeNames
       THEN LET a == handleMouseMove(currentMouseMode, mouseModes, pos)
            IN /\ mouseModes' = a.r
               /\ calls' = a.w
       ELSE /\ calls' = <<>>
            /\ UNCHANGED mouseModes
    /\ routed' = routed + 1
    /\ UNCHANGED <<ready, selectedVars, clickVars, scrollModes, engineVars>>

SweepParams == <<"hue", "intensity", "saturation", "chaos", "speed">>

MixedSweepParams == <<"hue", "intensity", "saturation", "gridDensity", "morphFactor">>

\* MixedScrollMode: (this.cycleGeometry + direction) % 24 without the + 24
cycleStep_noOffset(cycleGeometry, direction) ==
    JsRem(cycleGeometry + direction, 24)

\* MixedScrollMode: this.cycleGeometry = (this.cycleGeometry + direction + 24) % 24
cycleStep(cycleGeometry, direction) ==
    JsRem(cycleGeometry + direction + 24, 24)

\* handleWheel of mode m; direction is 1 or -1, rnd the outcomes of the
\* Math.random() tests of the handler
handleWheel(m, modes, direction, rnd) ==
    CASE m = "cycle" -> [r |-> modes, w |-> <<"gridDensity", "hue">>]
      [] m = "wave" -> [r |-> modes, w |-> <<"morphFactor">>]
      [] m = "sweep" ->
           [r |-> [modes EXCEPT !.sweep.sweepParameter =
                       IF rnd.next THEN (@ + 1) % Len(SweepParams) ELSE @],
            w |-> <<SweepParams[modes.sweep.sweepParameter + 1]>>]
      [] m = "mixed" ->
           LET g == IF rnd.geometry
                    THEN cycleStep(modes.mixed.cycleGeometry, direction)
                    ELSE modes.mixed.cycleGeometry
           IN [r |-> [modes EXCEPT
                        !.mixed.cycleGeometry = g,
                        !.mixed.sweepParameter =
                            IF rnd.sweep /\ rnd.next
                            THEN (@ + 1) % Len(MixedSweepParams) ELSE @],
               w |-> (IF rnd.geometry THEN <<"geometry">> ELSE <<>>)
                     \o (IF rnd.wave THEN <<"chaos", "speed">> ELSE <<>>)
                     \o (IF rnd.sweep
                         THEN <<MixedSweepParams[modes.mixed.sweepParameter + 1]>>
                         ELSE <<>>)]

\* the outcomes of the Math.random() tests of one wheel event
Randoms == [geometry : BOOLEAN, wave : BOOLEAN, sweep : BOOLEAN, next : BOOLEAN]

\* handleGlobalWheel for an event on the canvas while reactivity is enabled
handleGlobalWheel(direction, rnd) ==
    /\ IF ready /\ currentScrollMode \in ScrollModeNames
       THEN LET a == handleWheel(currentScrollMode, scrollModes, direction, rnd)
            IN /\ scrollModes' = a.r
               /\ calls' = a.w
       ELSE /\ calls' = <<>>
            /\ UNCHANGED scrollModes
    /\ routed' = routed + 1
    /\ UNCHANGED <<ready, selectedVars, clickVars, mouseModes, engineVars>>

PointerNext ==
    \/ initializeModes
    \/ \E n \in Systems \cup {"bogus"} : setActiveSystem(n)
    \/ \E m \in MouseModeNames \cup {"bogus"} : setMouseMode(m)
    \/ \E m \in ScrollModeNames \cup {"bogus"} : setScrollMode(m)
    \/ \E pos \in Positions : routed < MaxRouted /\ handleGlobalMouseMove(pos)
    \/ \E direction \in {1, -1}, rnd \in Randoms :
           routed < MaxRouted /\ handleGlobalWheel(direction, rnd)

\* ------------------------------------------- writes of several channels
\* the store of the multi-channel writes
BatchChannels == <<"hue", "rot4dXY">>

BatchDefaults == [c \in {BatchChannels[i] : i \in DOMAIN BatchChannels} |-> 0]

\* the values written to a channel: the least, and one beyond the greatest
BatchWritten == {0, MaxValue + 1}

BatchPartials ==
    UNION {[S -> BatchWritten] :
              S \in SUBSET {BatchChannels[i] : i \in DOMAIN BatchChannels}}

\* setParameters that runs updateCurrentSystemParameters after every channel
\* it writes
setParametersUpdates_perChannel(p, partial) ==
    LET ord == SelectSeq(BatchChannels, LAMBDA c : c \in DOMAIN partial) IN
    [i \in 1..Len(ord) |->
        ParamSetMany(p, [c \in {ord[j] : j \in 1..i} |-> partial[c]])]

\* setParameters: this.parameters.setParameters(params), then one
\* this.updateCurrentSystemParameters(); the snapshots the store holds at
\* the calls of updateCurrentSystemParameters
setParametersUpdates(p, partial) == <<ParamSetMany(p, partial)>>

\* setParameter: this.parameters.setParameter(name, value), then
\* this.updateCurrentSystemParameters()
setParameterUpdates(p, name, value) == <<ParamSet(p, name, value)>>

\* A write that leaves the store at the last of snaps and runs
\* updateCurrentSystemParameters at each of them
Batch_Write(op, partial, snaps) ==
    LET after == IF snaps = <<>> THEN parameters ELSE snaps[Len(snaps)]
        up == Pool_updateCurrentSystemParameters(adapters, systems, currentSystem, after)
    IN
    /\ parameters' = after
    /\ adapters' = IF snaps = <<>> THEN adapters ELSE up.ads
    /\ batch' = [partial |-> partial, before |-> parameters,
                 forwarded |-> IF up.hooks = {} THEN <<>> ELSE snaps]
    /\ lastCall' = Call(op, IF up.threw THEN "throws" ELSE "void", NoSwitch,
                        IF snaps = <<>> THEN {} ELSE up.hooks)
    /\ UNCHANGED <<initialized, activeSystem, currentSystemName, canvasManager,
                   pending, systems, currentSystem, layers, reactivityVars,
                   geometryVars, peripheralVars>>

Batch_setParameter(name, value) ==
    Batch_Write("setParameter", [c \in {name} |-> value],
                setParameterUpdates(parameters, name, value))

Batch_setParameters(partial) ==
    Batch_Write("setParameters", partial, setParametersUpdates(parameters, partial))

\* the coordinator with a store of two channels
BatchInit ==
    /\ adapters = <<>>
    /\ parameters = BatchDefaults
    /\ initialized = FALSE
    /\ activeSystem = 0
    /\ currentSystemName = "quantum"
    /\ canvasManager = NoCanvasManager
    /\ pending = {}
    /\ systems = [k \in Systems |-> 0]
    /\ currentSystem = "quantum"
    /\ layers = [k \in Systems |-> "absent"]
    /\ lastCall = [op |-> "-", again |-> FALSE, result |-> "-",
                   sw |-> NoSwitch, hooks |-> {}]
    /\ ReactivityInit
    /\ batch = [NoBatch EXCEPT !.before = BatchDefaults]
    /\ GeometryInit
    /\ PeripheralInit
    /\ gallery = NewGallery

\* initialize is called once
BatchNext ==
    \/ \E o \in Outcomes : ~initialized /\ Pool_initialize(TRUE, o)
    \/ \E n \in PooledNames : Pool_switchSystem(n)
    \/ \E c \in DOMAIN BatchDefaults, v \in BatchWritten : Batch_setParameter(c, v)
    \/ \E p \in BatchPartials : Batch_setParameters(p)

\* ================================================== geometry indices
\* GeometryLibrary (part_001): eight base geometries, three core variants
BASE_GEOMETRIES ==
    <<"tetrahedron", "hypercube", "sphere", "torus", "klein-bottle", "fractal",
      "wave", "crystal">>

CORE_VARIANTS == <<"hypercube-core", "hypersphere-core", "hypertetra-core">>

\* the geometry tabs (layout-polish.js): nine base geometries, three core types
TAB_BASE_GEOMETRIES ==
    <<"Tetrahedron", "Hypercube", "Sphere", "Torus", "Klein Bottle", "Fractal",
      "Wave", "Crystal", "Hexacosichoron">>

CORE_TYPES == [base |-> 0, hypersphere |-> 1, hypertetra |-> 2]

\* the indices the codec is given
GeometryInputs == (-MaxIndex)..MaxIndex

\* a call that returned null, and one that logged an error and returned
NullResult == [null |-> TRUE]
Rejected == [rejected |-> TRUE]

\* normalizeGeometryIndex that takes the remainder once
normalizeGeometryIndex_noOffset(index) ==
    LET total == Len(BASE_GEOMETRIES) * Len(CORE_VARIANTS) IN
    JsRem(index, total)

\* GeometryLibrary.normalizeGeometryIndex, of an integer
normalizeGeometryIndex(index) ==
    LET total == Len(BASE_GEOMETRIES) * Len(CORE_VARIANTS) IN
    JsRem(JsRem(index, total) + total, total)

\* encodeGeometryIndex that counts the cores within a base
encodeGeometryIndex_baseMajor(baseIndex, coreIndex) ==
    LET baseCount == Len(BASE_GEOMETRIES)
        coreCount == Len(CORE_VARIANTS)
    IN IF baseIndex < 0 \/ baseIndex >= baseCount THEN NullResult
       ELSE IF coreIndex < 0 \/ coreIndex >= coreCount THEN NullResult
       ELSE [index |-> baseIndex * coreCount + coreIndex]

\* GeometryLibrary.encodeGeometryIndex
encodeGeometryIndex(baseIndex, coreIndex) ==
    LET baseCount == Len(BASE_GEOMETRIES)
        coreCount == Len(CORE_VARIANTS)
    IN IF baseIndex < 0 \/ baseIndex >= baseCount THEN NullResult
       ELSE IF coreIndex < 0 \/ coreIndex >= coreCount THEN NullResult
       ELSE [index |-> coreIndex * baseCount + baseIndex]

\* GeometryLibrary.describeGeometry: the index is wrapped into the catalog
describeGeometry(index) ==
    LET baseCount == Len(BASE_GEOMETRIES)
        total == baseCount * Len(CORE_VARIANTS)
        normalizedIndex == JsRem(JsRem(index, total) + total, total)
    IN [index |-> normalizedIndex,
        baseIndex |-> JsRem(normalizedIndex, baseCount),
        coreIndex |-> normalizedIndex \div baseCount]

\* validateCollection (part_002): the test of a variation's geometry
validGeometry(geometry) == ~(geometry < 0 \/ geometry > 23)

\* calculateAndApplyGeometry: activeGeometry = activeCoreIndex * 9 + activeBaseIndex
calculateAndApplyGeometry(coreIndex, baseIndex) == coreIndex * 9 + baseIndex

\* A call of a function of GeometryLibrary, or of the collection validation
GeometryCall(op, args, result) ==
    /\ geoCall' = [op |-> op, args |-> args, result |-> result]
    /\ UNCHANGED <<tabVars, engineLike>>

Lib_normalizeGeometryIndex(index) ==
    GeometryCall("normalizeGeometryIndex", <<index>>,
                 [index |-> normalizeGeometryIndex(index)])

Lib_encodeGeometryIndex(baseIndex, coreIndex) ==
    GeometryCall("encodeGeometryIndex", <<baseIndex, coreIndex>>,
                 encodeGeometryIndex(baseIndex, coreIndex))

Lib_describeGeometry(index) ==
    GeometryCall("describeGeometry", <<index>>, describeGeometry(index))

validateCollection(geometry) ==
    GeometryCall("validateCollection", <<geometry>>,
                 [valid |-> validGeometry(geometry)])

\* window.switchCoreType(coreKey)
switchCoreType(coreKey) ==
    /\ IF coreKey \in DOMAIN CORE_TYPES
       THEN /\ activeCoreIndex' = CORE_TYPES[coreKey]
            /\ activeGeometry' =
                   calculateAndApplyGeometry(CORE_TYPES[coreKey], activeBaseIndex)
            /\ geoCall' = [op |-> "switchCoreType", args |-> <<>>,
                           result |-> [index |-> activeGeometry']]
       ELSE /\ geoCall' = [op |-> "switchCoreType", args |-> <<>>,
                           result |-> Rejected]
            /\ UNCHANGED <<activeCoreIndex, activeGeometry>>
    /\ UNCHANGED <<activeBaseIndex, engineLike>>

\* window.selectGeometryButton(baseIndex)
selectGeometryButton(baseIndex) ==
    /\ IF baseIndex < 0 \/ baseIndex > 8
       THEN /\ geoCall' = [op |-> "selectGeometryButton", args |-> <<baseIndex>>,
                           result |-> Rejected]
            /\ UNCHANGED <<activeBaseIndex, activeGeometry>>
       ELSE /\ activeBaseIndex' = baseIndex
            /\ activeGeometry' = calculateAndApplyGeometry(activeCoreIndex, baseIndex)
            /\ geoCall' = [op |-> "selectGeometryButton", args |-> <<baseIndex>>,
                           result |-> [index |-> activeGeometry']]
    /\ UNCHANGED <<activeCoreIndex, engineLike>>

\* window.loadGeometryFromIndex(geometryIndex): decode, switchCoreType, then
\* selectGeometryButton
loadGeometryFromIndex(geometryIndex) ==
    /\ IF geometryIndex < 0 \/ geometryIndex > 26
       THEN /\ geoCall' = [op |-> "loadGeometryFromIndex", args |-> <<geometryIndex>>,
                           result |-> Rejected]
            /\ UNCHANGED tabVars
       ELSE LET coreIndex == geometryIndex \div 9
                baseIndex == JsRem(geometryIndex, 9)
            IN /\ activeCoreIndex' = coreIndex
               /\ activeBaseIndex' = baseIndex
               /\ activeGeometry' = calculateAndApplyGeometry(coreIndex, baseIndex)
               /\ geoCall' = [op |-> "loadGeometryFromIndex",
                              args |-> <<geometryIndex>>,
                              result |-> [index |-> activeGeometry',
                                          baseIndex |-> baseIndex,
                                          coreIndex |-> coreIndex]]
    /\ UNCHANGED engineLike

GeometryNext ==
    \/ \E i \in GeometryInputs : Lib_normalizeGeometryIndex(i)
    \/ \E b \in -1..Len(TAB_BASE_GEOMETRIES), c \in -1..Len(CORE_VARIANTS) :
           Lib_encodeGeometryIndex(b, c)
    \/ \E i \in GeometryInputs : Lib_describeGeometry(i)
    \/ \E g \in GeometryInputs : validateCollection(g)
    \/ \E k \in DOMAIN CORE_TYPES \cup {"bogus"} : switchCoreType(k)
    \/ \E b \in -1..Len(TAB_BASE_GEOMETRIES) : selectGeometryButton(b)
    \/ \E i \in GeometryInputs : loadGeometryFromIndex(i)

\* ================================================= CollectionManager
\* migrateVariation: geometry: oldVariation.parameters?.geometryType || 0
migrateVariation(geometryType) == IF geometryType = 0 THEN 0 ELSE geometryType

migrate(data) ==
    [data EXCEPT !.type = "vib3plus-collection",
                 !.variations = [i \in DOMAIN data.variations |->
                                    migrateVariation(data.variations[i])]]

\* What the onload handler of importCollectionFile does with the parsed
\* data: the collection it admits, or the error it rejects with
importParsed(data) ==
    IF data.type = "holographic-collection" /\ ~data.hasVariations
    THEN [error |-> "Failed to parse collection"]
    ELSE LET d == IF data.type = "holographic-collection" THEN migrate(data) ELSE data
         IN IF d.type # "vib3plus-collection"
            THEN [error |-> "Failed to parse collection"]
            ELSE [collection |-> d]

\* importCollectionFile(file); read: the file could be read and parsed
importCollectionFile(filename, read, data) ==
    LET r == IF read THEN importParsed(data) ELSE [error |-> "Failed to read file"] IN
    /\ collectionManager' =
         [collectionManager EXCEPT
            !.collections = IF "collection" \in DOMAIN r
                            THEN [@ EXCEPT ![filename] = r.collection] ELSE @,
            !.last = [op |-> "importCollectionFile", filename |-> filename,
                      result |-> IF "collection" \in DOMAIN r
                                 THEN "resolved" ELSE "rejected"]]
    /\ UNCHANGED collectionRest

\* fetchCollectionFile once the response is there: the collection it
\* returns, or the error it throws
fetchCollectionFile(ok, data) ==
    IF ~ok THEN [error |-> "HTTP"]
    ELSE IF data.type \notin {"vib3plus-collection", "holographic-collection"}
    THEN [error |-> "Invalid collection format: missing or wrong type"]
    ELSE IF ~data.hasVariations
    THEN [error |-> "Invalid collection format: missing variations array"]
    ELSE [collection |-> IF data.type = "holographic-collection"
                         THEN migrate(data) ELSE data]

\* the fetches of a file that are under way
inFlight(cm, filename) == cm.fetching[filename].live + cm.fetching[filename].cleared

\* loadCollection(filename) up to its await: a load under way or done is
\* not repeated
loadCollection(filename) ==
    /\ \/ filename \in collectionManager.loadingPromises
       \/ inFlight(collectionManager, filename) < MaxInFlight
    /\ collectionManager' =
         IF filename \in collectionManager.loadingPromises
         THEN [collectionManager EXCEPT
                 !.last = [op |-> "loadCollection", filename |-> filename,
                           result |-> "same promise"]]
         ELSE [collectionManager EXCEPT
                 !.loadingPromises = @ \cup {filename},
                 !.fetching[filename].live = @ + 1,
                 !.last = [op |-> "loadCollection", filename |-> filename,
                           result |-> "pending"]]
    /\ UNCHANGED collectionRest

\* loadCollection(filename) after its await: the fetch has settled; kind
\* says whether clearCollections ran since the fetch began
loadCollectionSettles(filename, kind, ok, data) ==
    LET r == fetchCollectionFile(ok, data) IN
    /\ collectionManager.fetching[filename][kind] > 0
    /\ collectionManager' =
         [collectionManager EXCEPT
            !.fetching[filename][kind] = @ - 1,
            !.collections = IF "collection" \in DOMAIN r
                            THEN [@ EXCEPT ![filename] = r.collection] ELSE @,
            !.loadingPromises = IF "collection" \in DOMAIN r
                                THEN @ ELSE @ \ {filename},
            !.last = [op |-> "loadCollection", filename |-> filename,
                      result |-> IF "collection" \in DOMAIN r
                                 THEN "resolved" ELSE "rejected"]]
    /\ UNCHANGED collectionRest

clearCollections ==
    /\ collectionManager' =
         [collectionManager EXCEPT
            !.collections = [f \in Filenames |-> NoCollection],
            !.loadingPromises = {},
            !.fetching = [f \in Filenames |->
                            [live |-> 0, cleared |-> @[f].live + @[f].cleared]],
            !.last = [op |-> "clearCollections", filename |-> "-", result |-> "-"]]
    /\ UNCHANGED collectionRest

CollectionNext ==
    \/ \E f \in Filenames, d \in CollectionDocs : importCollectionFile(f, TRUE, d)
    \/ \E f \in Filenames : importCollectionFile(f, FALSE, NoCollection)
    \/ \E f \in Filenames : loadCollection(f)
    \/ \E f \in Filenames, kind \in {"live", "cleared"}, ok \in BOOLEAN,
          d \in CollectionDocs :
           loadCollectionSettles(f, kind, ok, d)
    \/ clearCollections


\* ================================================= persisted state
\* exportState that writes the defaults in place of the store's values
Pool_exportState_defaults ==
    [system |-> currentSystem, parameters |-> DefaultParams]

\* exportState of the pooled coordinator
Pool_exportState ==
    [system |-> currentSystem, parameters |-> parameters]

\* importState(exportState()); JavaScript treats the exported name as set
\* whenever it is not the empty string
Pool_importExported ==
    LET state == Pool_exportState IN
    Pool_importState(state.system, [has |-> TRUE, vals |-> state.parameters])

\* the write paths of the canvas-managed coordinator
StoreNext ==
    \/ \E found \in BOOLEAN : initialize(found)
    \/ \E c \in pending, ok \in BOOLEAN : createSystem(c, ok)
    \/ \E c \in Channels, v \in Written : setParameter(c, v)
    \/ \E p \in Partials : setParameters(p)
    \/ \E r \in Snapshots : randomizeAll(r)
    \/ resetAll
    \/ \E n \in {"", "bogus"}, p \in ImportedParams : importState(n, p)

PersistNext ==
    \/ \E o \in Outcomes : Pool_initialize(TRUE, o)
    \/ \E n \in PooledNames : Pool_switchSystem(n)
    \/ \E c \in Channels, v \in Written : Pool_setParameter(c, v)
    \/ \E r \in Snapshots : Pool_randomizeAll(r)
    \/ Pool_destroy
    \/ Pool_importExported


\* ================================================= state manager (URL)
\* JSON.stringify: the members in insertion order, those whose value is
\* undefined dropped; btoa keeps the text
JSONstringify(compressed) ==
    LET keys == <<"v", "s", "g", "p">>
        present(k) == compressed[k].has
        member(k) == [key |-> k] @@ [f \in DOMAIN compressed[k] \ {"has"} |-> compressed[k][f]]
        RECURSIVE members(_)
        members(i) == IF i > Len(keys) THEN <<>>
                      ELSE (IF present(keys[i]) THEN <<member(keys[i])>> ELSE <<>>)
                           \o members(i + 1)
    IN members(1)

\* JSON.parse: the object with the members of the text; a key the text does
\* not have reads as undefined
JSONparse(json) ==
    [k \in {"v", "s", "g", "p"} |->
        IF \E i \in DOMAIN json : json[i].key = k
        THEN LET m == json[CHOOSE i \in DOMAIN json : json[i].key = k]
             IN [has |-> TRUE] @@ [f \in DOMAIN m \ {"key"} |-> m[f]]
        ELSE [has |-> FALSE]]

\* encodeStateToURL(state)
encodeStateToURL(stateToEncode) ==
    JSONstringify([v |-> stateToEncode.v, s |-> stateToEncode.s,
                   g |-> stateToEncode.g, p |-> stateToEncode.p])

\* the state loadStateFromURL builds from window.location.search
decodeState(search) ==
    IF search = NoQuery \/ search = Garbled
    THEN NullState
    ELSE LET compressed == JSONparse(search) IN
         [version |-> IF compressed.v.has THEN compressed.v.str ELSE "1.0",
          system |-> IF compressed.s.has THEN compressed.s.str ELSE "faceted",
          geometry |-> IF compressed.g.has THEN compressed.g.num ELSE 0,
          parameters |-> IF compressed.p.has THEN compressed.p.obj ELSE <<>>]

\* the page is opened with a link made by encodeStateToURL
openLink(state) ==
    /\ stateManager' = [stateManager EXCEPT !.search = encodeStateToURL(state)]
    /\ UNCHANGED stateRest

\* the page is opened with a query string of another origin
openOther(search) ==
    /\ stateManager' = [stateManager EXCEPT !.search = search]
    /\ UNCHANGED stateRest

loadStateFromURL ==
    /\ stateManager' = [stateManager EXCEPT !.state = decodeState(stateManager.search)]
    /\ UNCHANGED stateRest

StateNext ==
    \/ \E c \in CompactStates : openLink(c)
    \/ \E q \in {NoQuery, Garbled} : openOther(q)
    \/ loadStateFromURL


\* ================================================= ViewerPortal
Max(a, b) == IF a > b THEN a ELSE b
Min(a, b) == IF a < b THEN a ELSE b

\* update6DPerspectiveFromTilt: the angles that enter perspective6D, and the
\* channels handed to engine.setParameters
update6DPerspectiveFromTilt(p) ==
    IF ~p.interactivity.tilt THEN p
    ELSE LET betaNorm == Max(-120, Min(120, p.deviceOrientation.beta))
             gammaNorm == Max(-120, Min(120, p.deviceOrientation.gamma))
             alphaNorm == JsRem(JsRem(p.deviceOrientation.alpha, 360) + 360, 360)
         IN [p EXCEPT !.last =
                [path |-> "tilt", tilt |-> TRUE, alpha |-> alphaNorm,
                 beta |-> betaNorm, gamma |-> gammaNorm,
                 channels |-> RotationChannels \cup
                     {"morphFactor", "intensity", "chaos", "gridDensity",
                      "hue", "saturation"}]]

\* updateMouse6DPerspective: the angles added to mouse6D when tilt is on
updateMouse6DPerspective(p) ==
    LET betaNorm == Max(-90, Min(90, p.deviceOrientation.beta))
        gammaNorm == Max(-90, Min(90, p.deviceOrientation.gamma))
        alpha == p.deviceOrientation.alpha
    IN [p EXCEPT !.last =
           [path |-> "mouse", tilt |-> p.interactivity.tilt,
            alpha |-> IF p.interactivity.tilt THEN alpha ELSE 0,
            beta |-> IF p.interactivity.tilt THEN betaNorm ELSE 0,
            gamma |-> IF p.interactivity.tilt THEN gammaNorm ELSE 0,
            channels |-> RotationChannels \cup {"morphFactor"}]]

\* the deviceorientation listener and handleDeviceOrientation
handleDeviceOrientation(alpha, beta, gamma) ==
    /\ portal' =
         IF ~portal.interactivity.tilt THEN portal
         ELSE update6DPerspectiveFromTilt(
                 [portal EXCEPT !.deviceOrientation =
                     [alpha |-> alpha, beta |-> beta, gamma |-> gamma]])
    /\ UNCHANGED portalRest

\* the mousemove listener (touchmove runs the same statements)
mousemove(x, y) ==
    /\ portal' =
         IF ~portal.interactivity.mouse THEN portal
         ELSE LET moved == [portal EXCEPT !.mouseX = x, !.mouseY = y] IN
              IF moved.interactivity.enhanced
              THEN updateMouse6DPerspective(moved) ELSE moved
    /\ UNCHANGED portalRest

\* toggleInteractivity(type); turning tilt off writes the base rotations
toggleInteractivity(type) ==
    LET flipped == [portal EXCEPT !.interactivity[type] = ~portal.interactivity[type]] IN
    /\ portal' =
         IF type = "tilt" /\ ~flipped.interactivity.tilt
         THEN [flipped EXCEPT !.last =
                  [NoPortalWrite EXCEPT !.path = "reset", !.channels = RotationChannels]]
         ELSE flipped
    /\ UNCHANGED portalRest

PortalNext ==
    \/ \E a \in DeviceAngles, b \in DeviceAngles, g \in DeviceAngles :
           handleDeviceOrientation(a, b, g)
    \/ \E x \in MousePositions, y \in MousePositions : mousemove(x, y)
    \/ \E type \in {"mouse", "tilt", "enhanced"} : toggleInteractivity(type)


\* ================================================= Hexacosichoron
\* Numbers are in ten-thousandths, rounded down.
Unit == 10000

RECURSIVE bisect(_, _, _)
bisect(n, lo, hi) ==
    IF hi - lo <= 1 THEN lo
    ELSE LET mid == (lo + hi) \div 2
         IN IF mid * mid <= n * Unit THEN bisect(n, mid, hi) ELSE bisect(n, lo, mid)

\* Math.sqrt
sqrt(n) == bisect(n, 0, 46341)

abs(n) == IF n < 0 THEN -n ELSE n

\* this.phi and this.invPhi
phi == (Unit + sqrt(5 * Unit)) \div 2
invPhi == (Unit * Unit) \div phi

Sum4(f) == f[1] + f[2] + f[3] + f[4]

\* the i-th pass of the first loop of generateVertices: the sign pattern i,
\* pushed when its number of minus signs is even
group1(i) ==
    LET bit(k) == (i \div k) % 2
        v == <<IF bit(1) = 1 THEN Unit ELSE -Unit, IF bit(2) = 1 THEN Unit ELSE -Unit,
               IF bit(4) = 1 THEN Unit ELSE -Unit, IF bit(8) = 1 THEN Unit ELSE -Unit>>
        minusCount == Cardinality({k \in 1..4 : v[k] < 0})
    IN IF minusCount % 2 = 0 THEN <<v>> ELSE <<>>

coords2 == <<<<0, 0, phi, invPhi>>, <<0, 0, phi, -invPhi>>,
             <<0, 0, -phi, invPhi>>, <<0, 0, -phi, -invPhi>>>>

coords3 == <<<<phi, Unit, 0, 0>>, <<phi, -Unit, 0, 0>>,
             <<-phi, Unit, 0, 0>>, <<-phi, -Unit, 0, 0>>>>

allPerms ==
    <<<<1, 2, 3, 4>>, <<1, 2, 4, 3>>, <<1, 3, 2, 4>>, <<1, 3, 4, 2>>, <<1, 4, 2, 3>>, <<1, 4, 3, 2>>,
      <<2, 1, 3, 4>>, <<2, 1, 4, 3>>, <<2, 3, 1, 4>>, <<2, 3, 4, 1>>, <<2, 4, 1, 3>>, <<2, 4, 3, 1>>,
      <<3, 1, 2, 4>>, <<3, 1, 4, 2>>, <<3, 2, 1, 4>>, <<3, 2, 4, 1>>, <<3, 4, 1, 2>>, <<3, 4, 2, 1>>,
      <<4, 1, 2, 3>>, <<4, 1, 3, 2>>, <<4, 2, 1, 3>>, <<4, 2, 3, 1>>, <<4, 3, 1, 2>>, <<4, 3, 2, 1>>>>

RECURSIVE uniquePerms(_, _, _)
uniquePerms(coords, n, permutations) ==
    IF n > Len(allPerms) THEN permutations
    ELSE LET perm == [k \in 1..4 |-> coords[allPerms[n][k]]]
         IN uniquePerms(coords, n + 1,
                        IF \E m \in DOMAIN permutations : permutations[m] = perm
                        THEN permutations ELSE Append(permutations, perm))

\* permuteCoordinates: the 24 orders of the coordinates, each distinct
\* vector once
permuteCoordinates(coords) == uniquePerms(coords, 1, <<>>)

normalize4D(v) ==
    LET length == sqrt(Sum4([k \in 1..4 |-> (v[k] * v[k]) \div Unit]))
    IN [k \in 1..4 |-> (v[k] * Unit) \div length]

distance4D(v1, v2) ==
    sqrt(Sum4([k \in 1..4 |-> ((v1[k] - v2[k]) * (v1[k] - v2[k])) \div Unit]))

edgeLength == (2 * Unit * Unit) \div phi
tolerance == Unit \div 100

\* the test generateEdges makes on a pair of vertices
connected(v1, v2) == abs(distance4D(v1, v2) - edgeLength) < tolerance

\* the inner loop of generateEdges for vertex i: the index pairs it pushes,
\* for j from the one after i, in the indices the code counts from zero
edgesFrom(vertices, i) ==
    LET later == [n \in 1..(Len(vertices) - i) |-> i + n]
        found == SelectSeq(later, LAMBDA j : connected(vertices[i], vertices[j]))
    IN [k \in 1..(2 * Len(found)) |->
           IF k % 2 = 1 THEN i - 1 ELSE found[k \div 2] - 1]

\* one pass of the first loop of generateVertices
Hex_group1 ==
    /\ hexacosichoron.pc = "group1"
    /\ LET h == hexacosichoron
           vs == h.vertices \o group1(h.i)
       IN hexacosichoron' =
            IF h.i = 15
            THEN [h EXCEPT !.vertices = vs, !.groups[1] = Len(vs), !.pc = "group2", !.i = 1]
            ELSE [h EXCEPT !.vertices = vs, !.i = h.i + 1]
    /\ UNCHANGED polytopeRest

\* one pass of the loop over coords2
Hex_group2 ==
    /\ hexacosichoron.pc = "group2"
    /\ LET h == hexacosichoron
           vs == h.vertices \o permuteCoordinates(coords2[h.i])
       IN hexacosichoron' =
            IF h.i = Len(coords2)
            THEN [h EXCEPT !.vertices = vs, !.groups[2] = Len(vs) - h.groups[1],
                           !.pc = "group3", !.i = 1]
            ELSE [h EXCEPT !.vertices = vs, !.i = h.i + 1]
    /\ UNCHANGED polytopeRest

\* one pass of the loop over coords3; after the last, every vertex is
\* normalized
Hex_group3 ==
    /\ hexacosichoron.pc = "group3"
    /\ LET h == hexacosichoron
           vs == h.vertices \o permuteCoordinates(coords3[h.i])
       IN hexacosichoron' =
            IF h.i = Len(coords3)
            THEN [h EXCEPT !.vertices = [k \in DOMAIN vs |-> normalize4D(vs[k])],
                           !.groups[3] = Len(vs) - h.groups[1] - h.groups[2],
                           !.pc = IF Len(vs) = 0 THEN "done" ELSE "edges", !.i = 1]
            ELSE [h EXCEPT !.vertices = vs, !.i = h.i + 1]
    /\ UNCHANGED polytopeRest

\* one pass of the outer loop of generateEdges
Hex_generateEdges ==
    /\ hexacosichoron.pc = "edges"
    /\ LET h == hexacosichoron
           ix == h.indices \o edgesFrom(h.vertices, h.i)
       IN hexacosichoron' =
            IF h.i = Len(h.vertices)
            THEN [h EXCEPT !.indices = ix, !.pc = "done"]
            ELSE [h EXCEPT !.indices = ix, !.i = h.i + 1]
    /\ UNCHANGED polytopeRest

PolytopeNext ==
    \/ Hex_group1
    \/ Hex_group2
    \/ Hex_group3
    \/ Hex_generateEdges


\* ================================================= ViewerPortal (values)
\* the device readings handled: level, a compass turn, a tilt, an extreme
\* tilt
TiltReadings == {<<180, 0, 0>>, <<0, 0, 0>>, <<180, 50, 0>>, <<180, 100, -200>>}

\* Math.sin(Date.now() * 0.005), in thousandths
Sines == {0, 1000}

\* engine.setParameters: every value is clamped into its channel's range
engineSetParameters(store, partial) ==
    [c \in DOMAIN store |->
        IF c \in DOMAIN partial
        THEN Max(TiltRanges[c].lo, Min(TiltRanges[c].hi, partial[c]))
        ELSE store[c]]

\* degrees * Math.PI / 180, in thousandths
radians(deg) == (deg * 17453) \div 1000

\* a * b of two values in thousandths
times(a, b) == (a * b) \div 1000

\* tiltIntensity: Math.sqrt(betaNorm * betaNorm + gammaNorm * gammaNorm) / 90
tiltIntensity(betaNorm, gammaNorm) ==
    (sqrt(betaNorm * betaNorm + gammaNorm * gammaNorm) * 10) \div 90

\* perspective6D of update6DPerspectiveFromTilt: the rotations from
\* baseRotations, the visual channels from engine.getParameter
perspective6D(eng, alpha, beta, gamma, sine) ==
    LET betaNorm == Max(-120, Min(120, beta))
        gammaNorm == Max(-120, Min(120, gamma))
        alphaNorm == JsRem(JsRem(alpha, 360) + 360, 360)
        t == tiltIntensity(betaNorm, gammaNorm)
        extremeTilt == t > 1000
        dramatic6DScale == IF extremeTilt THEN 800 ELSE 500
        transformativeScale == times(t, 200)
        base == eng.baseRotations
        get == eng.store
    IN [rot4dXY |-> base.rot4dXY + times(times(radians(gammaNorm), dramatic6DScale), 500),
        rot4dXZ |-> base.rot4dXZ + times(times(radians(betaNorm), dramatic6DScale), 500),
        rot4dYZ |-> base.rot4dYZ + times(times(radians(alphaNorm), dramatic6DScale), 300),
        rot4dXW |-> base.rot4dXW + times(radians(betaNorm), dramatic6DScale),
        rot4dYW |-> base.rot4dYW + times(radians(gammaNorm), dramatic6DScale),
        rot4dZW |-> base.rot4dZW + times(times(radians(alphaNorm), dramatic6DScale), 500),
        morphFactor |-> get.morphFactor + times(t, 400) + transformativeScale,
        intensity |-> get.intensity + times(t, 250) + (IF extremeTilt THEN 200 ELSE 0),
        chaos |-> get.chaos + times(times(t, t), 150),
        gridDensity |-> times(get.gridDensity, 1000 + times(t, 300)),
        hue |-> JsRem(get.hue + (alphaNorm - 180) * 800
                      + (IF extremeTilt THEN sine * 20 ELSE 0), 360000),
        saturation |-> get.saturation + times(t, 150) + (IF extremeTilt THEN 100 ELSE 0)]

\* mouse6D of updateMouse6DPerspective; x and y in halves of the window
mouse6D(eng, p) ==
    LET mouseOffsetX == p.mouseX - 1
        mouseOffsetY == p.mouseY - 1
        base == eng.baseRotations
        betaNorm == Max(-90, Min(90, p.deviceOrientation.beta))
        gammaNorm == Max(-90, Min(90, p.deviceOrientation.gamma))
        alpha == p.deviceOrientation.alpha
        tilt == p.interactivity.tilt
    IN [rot4dXY |-> base.rot4dXY + mouseOffsetX * 45
                    + (IF tilt THEN times(radians(gammaNorm), 50) ELSE 0),
        rot4dXZ |-> base.rot4dXZ + mouseOffsetY * 45
                    + (IF tilt THEN times(radians(betaNorm), 50) ELSE 0),
        rot4dYZ |-> base.rot4dYZ,
        rot4dXW |-> base.rot4dXW + mouseOffsetY * 150
                    + (IF tilt THEN times(radians(betaNorm), 100) ELSE 0),
        rot4dYW |-> base.rot4dYW + mouseOffsetX * 150
                    + (IF tilt THEN times(radians(gammaNorm), 100) ELSE 0),
        rot4dZW |-> base.rot4dZW + (IF tilt THEN times(radians(alpha), 50) ELSE 0),
        morphFactor |-> eng.store.morphFactor
                        + times(sqrt(mouseOffsetX * mouseOffsetX
                                     + mouseOffsetY * mouseOffsetY) * 10, 50)]

\* handleDeviceOrientation with the values update6DPerspectiveFromTilt
\* hands to the engine
Tilt_handleDeviceOrientation(alpha, beta, gamma, sine) ==
    /\ portal' =
         IF ~portal.interactivity.tilt THEN portal
         ELSE update6DPerspectiveFromTilt(
                 [portal EXCEPT !.deviceOrientation =
                     [alpha |-> alpha, beta |-> beta, gamma |-> gamma]])
    /\ portalEngine' =
         IF ~portal.interactivity.tilt
         THEN [portalEngine EXCEPT !.last = NoReading]
         ELSE [portalEngine EXCEPT
                 !.store = engineSetParameters(@,
                              perspective6D(portalEngine, alpha, beta, gamma, sine)),
                 !.last = [path |-> "tilt", reading |-> <<alpha, beta, gamma>>,
                           sine |-> sine]]
    /\ UNCHANGED tiltRest

\* the mousemove listener with the values updateMouse6DPerspective hands to
\* the engine
Tilt_mousemove(x, y) ==
    LET moved == [portal EXCEPT !.mouseX = x, !.mouseY = y]
        writes == portal.interactivity.mouse /\ portal.interactivity.enhanced
    IN
    /\ portal' =
         IF ~portal.interactivity.mouse THEN portal
         ELSE IF moved.interactivity.enhanced
              THEN updateMouse6DPerspective(moved) ELSE moved
    /\ portalEngine' =
         [portalEngine EXCEPT
            !.store = IF writes THEN engineSetParameters(@, mouse6D(portalEngine, moved))
                      ELSE @,
            !.last = [NoReading EXCEPT !.path = IF writes THEN "mouse" ELSE "-"]]
    /\ UNCHANGED tiltRest

\* toggleInteractivity('tilt'); turning tilt off writes the base rotations
Tilt_toggleInteractivity ==
    LET flipped == [portal EXCEPT !.interactivity.tilt = ~portal.interactivity.tilt] IN
    /\ portal' =
         IF ~flipped.interactivity.tilt
         THEN [flipped EXCEPT !.last =
                  [NoPortalWrite EXCEPT !.path = "reset", !.channels = RotationChannels]]
         ELSE flipped
    /\ portalEngine' =
         [portalEngine EXCEPT
            !.store = IF ~flipped.interactivity.tilt
                      THEN engineSetParameters(@, portalEngine.baseRotations) ELSE @,
            !.last = NoReading]
    /\ UNCHANGED tiltRest

TiltNext ==
    \/ \E r \in TiltReadings, s \in Sines :
           Tilt_handleDeviceOrientation(r[1], r[2], r[3], s)
    \/ \E x \in MousePositions, y \in MousePositions : Tilt_mousemove(x, y)
    \/ Tilt_toggleInteractivity


\* ================================================= rotation pipeline
\* cosine and sine of q quarter turns
cosq(q) == CASE q % 4 = 0 -> 1 [] q % 4 = 2 -> -1 [] OTHER -> 0
sinq(q) == CASE q % 4 = 1 -> 1 [] q % 4 = 3 -> -1 [] OTHER -> 0

\* the rotation of the coordinates a and b of a point by q quarter turns
rotatePlane(v, a, b, q) ==
    [v EXCEPT ![a] = v[a] * cosq(q) - v[b] * sinq(q),
              ![b] = v[a] * sinq(q) + v[b] * cosq(q)]

rotateXY(v, q) == rotatePlane(v, 1, 2, q)
rotateXZ(v, q) == rotatePlane(v, 1, 3, q)
rotateYZ(v, q) == rotatePlane(v, 2, 3, q)
rotateXW(v, q) == rotatePlane(v, 1, 4, q)
rotateYW(v, q) == rotatePlane(v, 2, 4, q)
rotateZW(v, q) == rotatePlane(v, 3, 4, q)

\* the distance of the eye along W, and the scale of the projected point
EyeW == 8
project4Dto3D(v) == [k \in 1..3 |-> (v[k] * Unit) \div (EyeW - v[4])]

\* the rotations applied with the hyperspace planes first
project_hyperFirst(vertex, params) ==
    LET v1 == rotateXW(vertex, params["rot4dXW"])
        v2 == rotateYW(v1, params["rot4dYW"])
        v3 == rotateZW(v2, params["rot4dZW"])
        v4 == rotateXY(v3, params["rot4dXY"])
        v5 == rotateXZ(v4, params["rot4dXZ"])
        v6 == rotateYZ(v5, params["rot4dYZ"])
    IN project4Dto3D(v6)

\* the rotation application order: the three space rotations, the three
\* hyperspace rotations, then the projection
project(vertex, params) ==
    LET v1 == rotateXY(vertex, params["rot4dXY"])
        v2 == rotateXZ(v1, params["rot4dXZ"])
        v3 == rotateYZ(v2, params["rot4dYZ"])
        v4 == rotateXW(v3, params["rot4dXW"])
        v5 == rotateYW(v4, params["rot4dYW"])
        v6 == rotateZW(v5, params["rot4dZW"])
    IN project4Dto3D(v6)

\* a renderer projects a point under a snapshot of the rotation channels
render(vertex, params) ==
    /\ pipeline' = [vertex |-> vertex, params |-> params,
                    projected |-> project(vertex, params)]
    /\ UNCHANGED pipelineRest

PipelineNext ==
    \/ \E v \in Points, p \in RotationSnapshots : render(v, p)


\* ================================================= state manager (history)
\* saveToHistory that keeps the states after the current index
sliceHistory_keep(history, index) == history

\* the states up to the current index: what is left when a state is saved
\* after undos
sliceHistory(history, index) ==
    IF index < Len(history) - 1 THEN SubSeq(history, 1, index + 1) ELSE history

\* saveToHistory that never drops the oldest state
limitHistory_none(history, index) == [history |-> history, index |-> index]

\* the oldest state is dropped when the history is longer than maxHistorySize
limitHistory(history, index) ==
    IF Len(history) > maxHistorySize
    THEN [history |-> Tail(history), index |-> index - 1]
    ELSE [history |-> history, index |-> index]

saveToHistory(state) ==
    LET sm == stateManager
        kept == sliceHistory(sm.stateHistory, sm.currentStateIndex)
        pushed == Append(kept, state)
        limited == limitHistory(pushed, Len(pushed) - 1)
    IN /\ stateManager' =
            [sm EXCEPT !.stateHistory = limited.history,
                       !.currentStateIndex = limited.index,
                       !.last = [op |-> "saveToHistory", result |-> TRUE,
                                 cut |-> Len(kept) < Len(sm.stateHistory),
                                 shifted |-> Len(limited.history) < Len(pushed)]]
       /\ UNCHANGED stateRest

\* the tests undo and redo make before they move
canUndo(sm) == ~(sm.currentStateIndex <= 0)
canRedo(sm) == ~(sm.currentStateIndex >= Len(sm.stateHistory) - 1)

\* undo and redo: the index moves by `step` and the state there is restored
moveInHistory(op, can, step) ==
    LET sm == stateManager
        index == sm.currentStateIndex + step
    IN /\ stateManager' =
            IF ~can
            THEN [sm EXCEPT !.last = [NoHistoryCall EXCEPT !.op = op]]
            ELSE [sm EXCEPT !.currentStateIndex = index,
                            !.restored = sm.stateHistory[index + 1],
                            !.last = [NoHistoryCall EXCEPT !.op = op, !.result = TRUE]]
       /\ UNCHANGED stateRest

undo == moveInHistory("undo", canUndo(stateManager), -1)

redo == moveInHistory("redo", canRedo(stateManager), 1)

HistoryNext ==
    \/ \E s \in SavedStates : saveToHistory(s)
    \/ undo
    \/ redo


\* ================================================= gallery and validation
\* x < n and x > n of JavaScript for a value of a document: a value that is
\* no number compares false
lessThan(x, n) == x.t = "number" /\ x.v < n
greaterThan(x, n) == x.t = "number" /\ x.v > n

\* the error validateCollection finds in a variation, "" when it finds none
variationError(variation) ==
    IF variation.system = ""
       \/ variation.system \notin {"quantum", "faceted", "holographic"}
    THEN "Invalid system"
    ELSE IF ~variation.hasParameters
    THEN "Missing parameters object"
    ELSE IF lessThan(variation.parameters["geometry"], 0)
            \/ greaterThan(variation.parameters["geometry"], 23)
    THEN "Invalid geometry index"
    ELSE IF \E rotParam \in RotationChannels :
               /\ variation.parameters[rotParam] # Undefined
               /\ \/ lessThan(variation.parameters[rotParam], 0)
                  \/ greaterThan(variation.parameters[rotParam], 628)
    THEN "Invalid rotation parameter"
    ELSE ""

\* validateCollection(collection): the error of the first variation that
\* has one
Doc_validateCollection(collection) ==
    IF collection.type = "" \/ collection.type # "vib3plus-collection"
    THEN [valid |-> FALSE, error |-> "Invalid collection type"]
    ELSE IF ~collection.hasVariations
    THEN [valid |-> FALSE, error |-> "Missing variations array"]
    ELSE LET bad == {i \in DOMAIN collection.variations :
                         variationError(collection.variations[i]) # ""}
         IN IF bad = {} THEN [valid |-> TRUE, error |-> ""]
            ELSE LET first == CHOOSE i \in bad : \A j \in bad : i <= j
                 IN [valid |-> FALSE,
                     error |-> variationError(collection.variations[first])]

\* the document of the gallery is validated
validate ==
    /\ gallery.verdict = NoVerdict
    /\ gallery' = [gallery EXCEPT
                     !.verdict = [op |-> "validate"] @@ Doc_validateCollection(gallery.doc)]
    /\ UNCHANGED galleryRest

ValidateNext == validate

\* pointer positions in halves of the canvas: a corner, the centre, the
\* opposite corner
GalleryPositions == {[x |-> 0, y |-> 0], [x |-> 1, y |-> 1], [x |-> 2, y |-> 2]}

\* value.toFixed(2) of a value in thousandths, in hundredths
toFixed2(m) == IF m >= 0 THEN (m + 5) \div 10 ELSE -((-m + 5) \div 10)

\* the range the store keeps a rotation in, in hundredths
RotationRange == [lo |-> -628, hi |-> 628]

\* RotationMode.handleMouseMove: the rotations it hands to updateParam, and
\* the store after them
Gallery_handleMouseMove(pos) ==
    LET sent ==
            [rot4dXY |-> toFixed2((pos.x - 1) * 3140),
             rot4dXZ |-> toFixed2((pos.y - 1) * 1884),
             rot4dYZ |-> toFixed2((pos.x + pos.y - 2) * 628),
             rot4dXW |-> toFixed2((pos.x - 1) * 6280),
             rot4dYW |-> toFixed2((pos.x - 1) * 4396),
             rot4dZW |-> toFixed2((pos.y - 1) * 6280)]
    IN
    /\ gallery' = [gallery EXCEPT
                     !.rotations = [c \in RotationChannels |->
                                       Max(RotationRange.lo,
                                           Min(RotationRange.hi, sent[c]))]]
    /\ UNCHANGED galleryRest

\* saveCurrentToSlot(index): the system and the parameters of
\* engine.exportState()
saveCurrentToSlot(index) ==
    /\ gallery' = [gallery EXCEPT
                     !.savedVariations[index] =
                         [system |-> gallery.system, hasParameters |-> TRUE,
                          parameters |-> [k \in ParameterKeys |->
                                            IF k = "geometry" THEN Num(0)
                                            ELSE Num(gallery.rotations[k])]]]
    /\ UNCHANGED galleryRest

\* generateDefaultVariation(index)
generateDefaultVariation(index) ==
    [system |-> <<"quantum", "faceted", "holographic">>[(index % 3) + 1],
     hasParameters |-> TRUE,
     parameters |->
        [k \in ParameterKeys |->
            CASE k = "geometry" -> Num(index \div 3)
              [] k = "rot4dXW" -> Num((index * 30) % 628)
              [] k = "rot4dYW" -> Num((index * 50) % 628)
              [] k = "rot4dZW" -> Num((index * 70) % 628)
              [] OTHER -> Num(0)]]

\* the saved slots in the order of their indices
customVariations ==
    LET set == {i \in Slots : gallery.savedVariations[i] # NoVariation}
        ord == SelectSeq(<<30, 31>>, LAMBDA i : i \in set)
    IN [j \in 1..Len(ord) |-> gallery.savedVariations[ord[j]]]

\* exportAllVariations: the thirty default variations, then the saved ones
exportAllVariations ==
    LET exportData ==
            [type |-> "vib3plus-collection", hasVariations |-> TRUE,
             variations |-> [i \in 1..30 |-> generateDefaultVariation(i - 1)]
                            \o customVariations]
    IN
    /\ gallery' = [gallery EXCEPT
                     !.doc = exportData,
                     !.verdict = [op |-> "exportAllVariations"]
                                 @@ Doc_validateCollection(exportData)]
    /\ UNCHANGED galleryRest

\* v || d for a value of a document
orDefault(x, d) == IF x.t = "number" /\ x.v # 0 THEN x ELSE Num(d)

\* saveCollection(collection, filename) of the saved slots
saveCollection ==
    LET formattedCollection ==
            [type |-> "vib3plus-collection", hasVariations |-> TRUE,
             variations |->
                [j \in DOMAIN customVariations |->
                    [system |-> IF customVariations[j].system = "" THEN "quantum"
                                ELSE customVariations[j].system,
                     hasParameters |-> TRUE,
                     parameters |-> [k \in ParameterKeys |->
                                       orDefault(customVariations[j].parameters[k], 0)]]]]
    IN
    /\ gallery' = [gallery EXCEPT
                     !.doc = formattedCollection,
                     !.verdict = [op |-> "saveCollection"]
                                 @@ Doc_validateCollection(formattedCollection)]
    /\ UNCHANGED galleryRest

ExportNext ==
    \/ \E pos \in GalleryPositions : Gallery_handleMouseMove(pos)
    \/ \E i \in Slots : saveCurrentToSlot(i)
    \/ exportAllVariations
    \/ saveCollection


\* ================================================= state manager (auto-save)
\* what setupAutoSave hooks scheduleAutoSave to
AutoSaveTriggers == {"input", "switchSystem", "selectGeometry", "switchBezelTab"}

\* scheduleAutoSave that leaves the pending timer running
scheduleAutoSave_keep(trigger) ==
    /\ stateManager' =
         IF ~stateManager.autoSaveEnabled THEN stateManager
         ELSE LET id == stateManager.autoSave.calls + 1 IN
              [stateManager EXCEPT
                 !.autoSaveTimeout = id,
                 !.autoSave = [@ EXCEPT
                    !.timers = @ \cup {id},
                    !.calls = id,
                    !.bursts = IF stateManager.autoSave.timers = {} THEN @ + 1 ELSE @,
                    !.trigger = trigger]]
    /\ UNCHANGED stateRest

\* scheduleAutoSave(), called by a hooked function or a slider's input
\* event: clearTimeout(autoSaveTimeout), then a new timer
scheduleAutoSave(trigger) ==
    /\ stateManager' =
         IF ~stateManager.autoSaveEnabled THEN stateManager
         ELSE LET id == stateManager.autoSave.calls + 1 IN
              [stateManager EXCEPT
                 !.autoSaveTimeout = id,
                 !.autoSave = [@ EXCEPT
                    !.timers = (@ \ {stateManager.autoSaveTimeout}) \cup {id},
                    !.calls = id,
                    !.bursts = IF stateManager.autoSave.timers = {} THEN @ + 1 ELSE @,
                    !.trigger = trigger]]
    /\ UNCHANGED stateRest

\* the timer id fires after autoSaveDelay: saveStateToStorage()
autoSaveFires(id) ==
    /\ id \in stateManager.autoSave.timers
    /\ stateManager' =
         [stateManager EXCEPT
            !.autoSave = [@ EXCEPT
               !.timers = @ \ {id},
               !.saves = @ + 1,
               !.stored = stateManager.autoSave.calls,
               !.trigger = "timer"]]
    /\ UNCHANGED stateRest

AutoSaveNext ==
    \/ \E t \in AutoSaveTriggers :
           stateManager.autoSave.calls < MaxSchedules /\ scheduleAutoSave(t)
    \/ \E id \in 1..MaxSchedules : autoSaveFires(id)

SpecManaged == Init /\ [][ManagedNext]_vars

SpecPooled == Init /\ [][PooledNext]_vars

SpecClick == Init /\ [][ClickNext]_vars

SpecPointer == Init /\ [][PointerNext]_vars

SpecBatch == BatchInit /\ [][BatchNext]_vars

SpecGeometry == Init /\ [][GeometryNext]_vars

SpecCollections == Init /\ [][CollectionNext]_vars
SpecPersist == Init /\ [][PersistNext]_vars
SpecState == Init /\ [][StateNext]_vars
SpecPortal == Init /\ [][PortalNext]_vars
SpecPolytope == Init /\ [][PolytopeNext]_vars
SpecPipeline == Init /\ [][PipelineNext]_vars
SpecStore == Init /\ [][StoreNext]_vars
SpecHistory == Init /\ [][HistoryNext]_vars
SpecToggle == Init /\ [][ToggleNext]_vars
SpecLoops == Init /\ [][LoopNext]_vars
SpecTilt == Init /\ [][TiltNext]_vars
SpecExport == Init /\ [][ExportNext]_vars
SpecValidate == ValidateInit /\ [][ValidateNext]_vars
SpecAutoSave == Init /\ [][AutoSaveNext]_vars

\* ============================================================ claims
\* An adapter counts as active when it was last told setActive(true) and
\* has not been destroyed.
ActiveAdapters == {i \in DOMAIN adapters : adapters[i].active /\ ~adapters[i].destroyed}

LiveAdapters == {i \in DOMAIN adapters : ~adapters[i].destroyed}

\* C1: after any sequence of initialize, switchSystem, setParameter(s),
\* importState and destroy calls, at most one adapter is active.
C1_AtMostOneActive == Cardinality(ActiveAdapters) <= 1

\* C2: a switchSystem(new) that succeeds while the adapter of another
\* engine `old` is active leaves `old` deactivated and destroyed, so that
\* old and new never exist together.
C2_OldReleasedBeforeNew ==
    [][\A n \in Systems :
         (/\ Pool_switchSystem(n)
          /\ Pool_current # 0
          /\ adapters[Pool_current].kind # n
          /\ lastCall'.result = "true")
         => /\ adapters'[Pool_current].destroyed
            /\ ~adapters'[Pool_current].active]_vars

\* C3: once every call of a run with overlapping switchSystem / destroy calls
\* has completed, at most one adapter is constructed and not destroyed, and
\* it is the one recorded as active.
C3_QuiescedAfterOverlap ==
    (pending = {} /\ lastCall.sw.overlap)
    => /\ Cardinality(LiveAdapters) <= 1
       /\ LiveAdapters \subseteq {activeSystem}

\* C4: when the adapter's constructor or its initialize throws inside
\* switchSystem, the call reports failure (returns false) and the coordinator
\* is Idle: no adapter is recorded as active and none is active.
C4_FailedSwitchEndsIdle ==
    (lastCall.sw.ctor = "threw" \/ lastCall.sw.init = "threw")
    => /\ lastCall.sw.result = "false"
       /\ activeSystem = 0
       /\ ActiveAdapters = {}

C4_Witness ==
    /\ lastCall.op = "switchSystem"
    /\ lastCall.sw.init = "threw"
    /\ lastCall.result = "false"
    /\ LiveAdapters # {}

\* C5: switchSystem with a name that is no engine fails and changes nothing:
\* adapters, current system and canvases are as before the call.
C5_UnknownNameChangesNothing ==
    [][\A n \in SystemNames \ Systems :
         (Pool_switchSystem(n) /\ Pool_current # 0)
         => /\ lastCall'.result # "true"
            /\ UNCHANGED <<adapters, systems, currentSystem, layers, parameters,
                           initialized>>]_vars

\* C6: switchSystem(x) for a known engine whose adapter constructs and
\* initializes without error returns true and ends in Active(x).
C6_SwitchActivates ==
    (lastCall.op = "switchSystem" /\ lastCall.sw.ctor = "ok" /\ lastCall.sw.init = "ok")
    => /\ lastCall.result = "true"
       /\ (pending = {} => activeSystem # 0)

C8_SameSystemNoOp ==
    [][\A n \in Systems :
         (Pool_switchSystem(n) /\ Pool_current # 0 /\ currentSystem = n)
         => /\ UNCHANGED <<adapters, systems, currentSystem, layers, parameters>>
            /\ lastCall'.hooks \cap {"setActive(false)", "destroy", "construct"} = {}]_vars

C10_FailedSwitchKeepsOld ==
    [][\A n \in SystemNames :
         (Pool_switchSystem(n) /\ lastCall'.result # "true" /\ Pool_current # 0)
         => /\ Pool_current' = Pool_current
            /\ adapters'[Pool_current].active
            /\ ~adapters'[Pool_current].destroyed]_vars

\* C11: once another click mode is selected, the decay loop of the
\* deselected mode writes no parameter any more: in every animation frame
\* only the selected mode writes.
C11_DeselectedModeStopsWriting ==
    [][AnimationFrame
       => \A m \in ClickModeNames : m # currentClickMode => written'[m] = {}]_vars

C13_ReselectedModeIsFresh ==
    [][(currentMouseMode' # currentMouseMode /\ currentMouseMode' = "velocity")
       => mouseModes'.velocity = NewMouseModes.velocity]_vars

\* C15: a pointer move or scroll step routed to the selected mode yields
\* exactly one parameter write, which carries every channel the mode changed.
C15_OneWritePerEvent ==
    [][(routed' = routed + 1 /\ ready) => Len(calls') = 1]_vars

\* C14: setParameters(partial) hands the current adapter exactly one
\* update, and that update carries the values every written channel has
\* after the whole batch.
C14_OneBatchedUpdate ==
    LET t == systemsGet(systems, currentSystem) IN
    (lastCall.op = "setParameters" /\ t > 0)
    => /\ parameters = ParamSetMany(batch.before, batch.partial)
       /\ batch.forwarded = <<parameters>>
       /\ adapters[t].params = parameters

C14_Witness ==
    /\ lastCall.op = "setParameters"
    /\ systemsGet(systems, currentSystem) > 0
    /\ DOMAIN batch.partial = DOMAIN BatchDefaults
    /\ \A c \in DOMAIN BatchDefaults : parameters[c] # batch.before[c]
    /\ Len(batch.forwarded) = 1

\* C16: the geometry index encoding round-trips: describeGeometry of the
\* index encodeGeometryIndex gives for a valid pair returns that pair, and
\* encoding the pair describeGeometry gives for a valid index returns that
\* index; likewise the tabs load an index to the pair whose combined index
\* it is, and the combined index decodes to the selected pair.
C16_RoundTrip ==
    LET baseCount == Len(BASE_GEOMETRIES)
        coreCount == Len(CORE_VARIANTS)
    IN
    /\ geoCall.op = "encodeGeometryIndex"
       => IF geoCall.args[1] \in 0..(baseCount - 1) /\ geoCall.args[2] \in 0..(coreCount - 1)
          THEN /\ geoCall.result = [index |-> geoCall.args[2] * baseCount + geoCall.args[1]]
               /\ describeGeometry(geoCall.result.index).baseIndex = geoCall.args[1]
               /\ describeGeometry(geoCall.result.index).coreIndex = geoCall.args[2]
          ELSE geoCall.result = NullResult
    /\ (geoCall.op = "describeGeometry" /\ geoCall.args[1] \in 0..(baseCount * coreCount - 1))
       => /\ geoCall.result.baseIndex = geoCall.args[1] % baseCount
          /\ geoCall.result.coreIndex = geoCall.args[1] \div baseCount
          /\ encodeGeometryIndex(geoCall.result.baseIndex, geoCall.result.coreIndex)
               = [index |-> geoCall.args[1]]
    /\ (geoCall.op = "loadGeometryFromIndex" /\ geoCall.result # Rejected)
       => activeGeometry = geoCall.args[1]
    /\ activeCoreIndex = activeGeometry \div Len(TAB_BASE_GEOMETRIES)
    /\ activeBaseIndex = activeGeometry % Len(TAB_BASE_GEOMETRIES)

C16_Witness ==
    /\ geoCall.op = "encodeGeometryIndex"
    /\ geoCall.args = <<7, 2>>
    /\ geoCall.result = [index |-> 23]
    /\ activeGeometry = 26

\* C17: normalizeGeometryIndex maps an integer raw to
\* ((raw mod total) + total) mod total, a value of 0..total-1 congruent to
\* raw; -1 goes to total - 1 and total goes to 0.
C17_NormalizeWraps ==
    LET total == Len(BASE_GEOMETRIES) * Len(CORE_VARIANTS)
        raw == geoCall.args[1]
        r == geoCall.result.index
    IN geoCall.op = "normalizeGeometryIndex"
       => /\ r = ((raw % total) + total) % total
          /\ r \in 0..(total - 1)
          /\ (r - raw) % total = 0
          /\ raw = -1 => r = total - 1
          /\ raw = total => r = 0

C17_Witness ==
    /\ geoCall.op = "normalizeGeometryIndex"
    /\ geoCall.args = <<-1>>
    /\ geoCall.result = [index |-> Len(BASE_GEOMETRIES) * Len(CORE_VARIANTS) - 1]

\* C18: decoding an index that is negative or at least baseCount * coreCount
\* fails: describeGeometry and loadGeometryFromIndex never give a pair for it.
C18_OutOfRangeFails ==
    /\ (/\ geoCall.op = "describeGeometry"
        /\ \/ geoCall.args[1] < 0
           \/ geoCall.args[1] >= Len(BASE_GEOMETRIES) * Len(CORE_VARIANTS))
       => geoCall.result \in {Rejected, NullResult}
    /\ (/\ geoCall.op = "loadGeometryFromIndex"
        /\ \/ geoCall.args[1] < 0
           \/ geoCall.args[1] >= Len(TAB_BASE_GEOMETRIES) * Len(CORE_VARIANTS))
       => geoCall.result \in {Rejected, NullResult}

C20_OneCatalog ==
    /\ validGeometry(activeGeometry)
    /\ describeGeometry(activeGeometry) =
           [index |-> activeGeometry, baseIndex |-> activeBaseIndex,
            coreIndex |-> activeCoreIndex]

\* C21: a collection document with a variation of an out-of-range geometry
\* is rejected in full: no collection the manager holds, imported from a
\* file or loaded by fetch, has a variation whose geometry the validation
\* refuses.
C21_InvalidGeometryRejected ==
    \A f \in Filenames :
        \A i \in DOMAIN collectionManager.collections[f].variations :
            validGeometry(collectionManager.collections[f].variations[i])

\* C22: importing a state document that names an unknown system fails as a
\* whole: the call reports the failure and leaves the current system and
\* every parameter as they were.
C22_FailedImportChangesNothing ==
    [][\A p \in ImportedParams :
          importState("bogus", p)
          => /\ parameters' = parameters
             /\ currentSystemName' = currentSystemName
             /\ lastCall'.result \in {"false", "throws"}]_vars

\* C23: persisted state round-trips: importState(exportState()) leaves the
\* current system name and the value of every parameter channel unchanged.
C23_ExportImportRoundTrip ==
    [][Pool_importExported
       => /\ currentSystem' = currentSystem
          /\ parameters' = parameters]_vars

\* a round trip made with a system other than the initial one selected and
\* a channel away from its default
C23_Witness ==
    /\ lastCall.op = "importState"
    /\ lastCall.sw.result = "true"
    /\ currentSystem = "faceted"
    /\ parameters["hue"] = MaxValue

\* C24: decoding a shareable URL reconstructs a full parameter set: every
\* required channel, also one the compact {v, s, g, p} form does not carry,
\* is defined in the decoded state.
C24_DecodedStateIsFull ==
    stateManager.state # NullState
    => \A c \in StateChannels : c \in DOMAIN stateManager.state.parameters

C26_DeviceAnglesBounded ==
    portal.last.tilt
    => /\ portal.last.beta \in -120..120
       /\ portal.last.gamma \in -120..120
       /\ portal.last.alpha \in 0..359

\* C27: vertex generation yields exactly 120 vertices, in groups of 8, 96
\* and 16, and no two of them are the same point.
C27_VertexCount ==
    hexacosichoron.pc \in {"edges", "done"}
    => /\ Len(hexacosichoron.vertices) = 120
       /\ hexacosichoron.groups = <<8, 96, 16>>
       /\ \A m, n \in DOMAIN hexacosichoron.vertices :
             hexacosichoron.vertices[m] = hexacosichoron.vertices[n] => m = n

\* C28: edge generation connects exactly the pairs of vertices whose distance
\* is 2/phi within the tolerance, each unordered pair once, and yields
\* exactly 720 edges.
C28_EdgeCount ==
    hexacosichoron.pc = "done"
    => LET ix == hexacosichoron.indices
           vs == hexacosichoron.vertices
           edge(k) == <<ix[2 * k - 1] + 1, ix[2 * k] + 1>>
           E == 1..(Len(ix) \div 2)
       IN /\ Len(ix) = 2 * 720
          /\ \A k \in E : edge(k)[1] < edge(k)[2] /\ connected(vs[edge(k)[1]], vs[edge(k)[2]])
          /\ \A k, l \in E : edge(k) = edge(l) => k = l
          /\ \A m, n \in DOMAIN vs :
                (m < n /\ connected(vs[m], vs[n])) => \E k \in E : edge(k) = <<m, n>>

C30_NoAdapterLeaked ==
    pending = {} => \A a \in LiveAdapters : a = activeSystem /\ activeSystem # 0

\* C31: after any sequence of saveToHistory, undo and redo the history holds
\* at most maxHistorySize states and, when it is not empty, currentStateIndex
\* is an index into it; undo at the oldest state and redo at the newest
\* return false and change neither the history nor the index.
C31_HistoryBounded ==
    [][/\ Len(stateManager'.stateHistory) <= maxHistorySize
       /\ stateManager'.stateHistory # <<>>
          => stateManager'.currentStateIndex \in 0..(Len(stateManager'.stateHistory) - 1)
       /\ (undo /\ stateManager.currentStateIndex <= 0) \/
          (redo /\ stateManager.currentStateIndex = Len(stateManager.stateHistory) - 1)
          => /\ ~stateManager'.last.result
             /\ stateManager'.stateHistory = stateManager.stateHistory
             /\ stateManager'.currentStateIndex = stateManager.currentStateIndex]_vars

\* a state was saved into a full history, and the oldest one was dropped
C31_Witness ==
    /\ stateManager.last.op = "saveToHistory"
    /\ stateManager.last.shifted
    /\ Len(stateManager.stateHistory) = maxHistorySize

\* C32: saving a state after one or more undos discards the redo branch: the
\* new state is the last entry, currentStateIndex is the last index, the
\* states that were after the previous index are gone, and redo returns false.
C32_SaveDiscardsRedoBranch ==
    [][\A s \in SavedStates :
          (saveToHistory(s) /\ canRedo(stateManager))
          => /\ stateManager'.stateHistory =
                   Append(SubSeq(stateManager.stateHistory, 1,
                                 stateManager.currentStateIndex + 1), s)
             /\ stateManager'.currentStateIndex = Len(stateManager'.stateHistory) - 1
             /\ ~canRedo(stateManager')]_vars

\* a state was saved after an undo, and states were cut off
C32_Witness ==
    /\ stateManager.last.op = "saveToHistory"
    /\ stateManager.last.cut
    /\ Len(stateManager.stateHistory) = 2

\* C33: duplicate loading is avoided: a loadCollection of a file whose load
\* is under way or has succeeded returns the promise there is and issues no
\* fetch, and at most one fetch of a file is ever under way.
C33_OneFetchPerFile ==
    [][\A f \in Filenames :
          /\ inFlight(collectionManager', f) <= 1
          /\ (loadCollection(f) /\ f \in collectionManager.loadingPromises)
             => /\ collectionManager'.fetching = collectionManager.fetching
                /\ collectionManager'.last.result = "same promise"]_vars

\* C34: clearCollections is effective against loads under way: a load that
\* was under way when clearCollections ran does not insert its collection
\* afterwards.
C34_ClearedLoadInsertsNothing ==
    [][\A f \in Filenames, ok \in BOOLEAN, d \in CollectionDocs :
          loadCollectionSettles(f, "cleared", ok, d)
          => collectionManager'.collections = collectionManager.collections]_vars

\* C35: each click-mode instance runs at most one animation loop: never is
\* more than one run of its animate queued, and isAnimating is true exactly
\* while one is.
C35_OneLoopPerMode ==
    \A m \in ClickModeNames :
        /\ clickModes[m].scheduled <= 1
        /\ clickModes[m].isAnimating <=> clickModes[m].scheduled = 1

\* a mode was clicked again while its loop was running, and the loop goes on
C35_Witness ==
    \E m \in ClickModeNames :
        /\ clickModes[m].clicks >= 2
        /\ clickModes[m].isAnimating
        /\ clickModes[m].ticks >= 2

\* C36: while reactivity is switched off by setEnabled(false) or
\* toggleClick(false), the ReactivityManager originates no parameter write,
\* the decay loops that were started before included.
C36_DisabledWritesNothing ==
    [][(~(toggles.enabled /\ toggles.clickEnabled) /\ toggles' = toggles)
       => written' = NoWrites]_vars

\* C37: tilt handling does not accumulate: handling a device-orientation
\* reading that was handled in the step before leaves every channel of the
\* store (morphFactor, intensity, chaos, gridDensity, saturation, hue and the
\* six rotations) at the value the first handling left.
C37_TiltDoesNotAccumulate ==
    [][\A r \in TiltReadings, s \in Sines :
          (/\ Tilt_handleDeviceOrientation(r[1], r[2], r[3], s)
           /\ portal.interactivity.tilt
           /\ portalEngine.last = [path |-> "tilt", reading |-> r, sine |-> s])
          => portalEngine'.store = portalEngine.store]_vars

\* C38: the collections the program exports are importable: the document
\* exportAllVariations or saveCollection produces from the default
\* variations and the saved slots, whatever rotations the store held when a
\* slot was saved, is accepted by validateCollection.
C38_ExportsAreValid ==
    gallery.verdict.op \in {"exportAllVariations", "saveCollection"}
    => gallery.verdict.valid

\* C39: validateCollection returns valid only if every variation has a known
\* system, a parameters object, a geometry that is a number in 0..23 and
\* every rotation channel a number in 0..6.28; a variation whose geometry or
\* rotation is missing, not a number or out of range makes it invalid with
\* an error.
C39_ValidOnlyIfEveryVariationIs ==
    gallery.verdict.op = "validate"
    => IF gallery.verdict.valid
       THEN \A i \in DOMAIN gallery.doc.variations :
               LET v == gallery.doc.variations[i] IN
               /\ v.system \in {"quantum", "faceted", "holographic"}
               /\ v.hasParameters
               /\ v.parameters["geometry"].t = "number"
               /\ v.parameters["geometry"].v \in 0..23
               /\ \A c \in RotationChannels :
                     /\ v.parameters[c].t = "number"
                     /\ v.parameters[c].v \in 0..628
       ELSE gallery.verdict.error # ""

\* C40: auto-save is debounced: at most one auto-save timer is pending, it is
\* the one the last scheduleAutoSave set (the earlier one was cancelled), and
\* every burst of calls that has ended gave exactly one saveStateToStorage,
\* which ran after the last call of the burst.
C40_AutoSaveDebounced ==
    LET a == stateManager.autoSave IN
    /\ Cardinality(a.timers) <= 1
    /\ a.timers \subseteq {stateManager.autoSaveTimeout}
    /\ a.saves = a.bursts - Cardinality(a.timers)
    /\ a.timers = {} => a.stored = a.calls

\* a burst of several calls has ended with its save
C40_Witness ==
    LET a == stateManager.autoSave IN
    /\ a.timers = {}
    /\ a.saves = 1
    /\ a.calls >= 3

====
